---- MODULE Spec2Model ----
(***************************************************************************)
(* Heat scheduling and elimination engine of derby-timer.                  *)
(*                                                                         *)
(* Part 1: the pure planner (race/heat-planner.ts) and the elimination     *)
(*         policy (race/elimination.ts), as operators.                     *)
(* Part 2: a harness that drives the planner (SpecDrive, SpecPlan).        *)
(* Part 3: the event service (index.ts): heats, rounds, roster cache,      *)
(*         start / stop / complete / results / generate / delete (Spec,    *)
(*         SpecMulti).                                                     *)
(*                                                                         *)
(* Racer ids and car numbers are natural numbers (the application assigns  *)
(* numeric car numbers, so compareCarNumbers takes its numeric branch).    *)
(* Performance scores are exact rationals <<numerator, denominator>>.      *)
(***************************************************************************)
EXTENDS Integers, Sequences, FiniteSets, TLC

\* ------------------------------------------------------------ bounds
MaxRacers == 4      \* roster sizes 1..MaxRacers in the planner harness
MaxLanes == 2       \* lane counts up to MaxLanes
MaxRounds == 2      \* target runs per lane, 1..MaxRounds
MaxArbHeats == 1    \* arbitrary (not planner-made) heats put into a history
MaxLookahead == 3
MaxHistory == 40    \* iterations of a planning loop (the tests stop theirs at 40 and 80)

\* ------------------------------------------------------------ helpers
Max(a, b) == IF a >= b THEN a ELSE b
Min(a, b) == IF a <= b THEN a ELSE b
Abs(a) == IF a >= 0 THEN a ELSE -a

Range(s) == {s[i] : i \in DOMAIN s}

RECURSIVE SumSeq(_)
SumSeq(s) == IF s = <<>> THEN 0 ELSE Head(s) + SumSeq(Tail(s))

IdsOf(racers) == {racers[i].id : i \in DOMAIN racers}

\* f itself, held as a table of its values
Stored(f) == f @@ <<>>

\* `const name = value`, then the code that uses name: Bound([name \in {value} |-> code])
Bound(f) == f[CHOOSE x \in DOMAIN f : TRUE]

\* ------------------------------------------------------------ heat-planner
DEFAULT_ROUNDS == 1

NullHeat == [lanes |-> <<>>]

\* standingsByRacer.get(racerId): the last standing of the list with that id
HasStanding(racerId, standings) ==
    \E i \in DOMAIN standings : standings[i].racer_id = racerId

StandingOf(racerId, standings) ==
    LET idx == {i \in DOMAIN standings : standings[i].racer_id = racerId}
        last == CHOOSE i \in idx : \A j \in idx : j <= i
    IN standings[last]

\* wins*100 + (wins / max(heats_run,1))*10 - losses*2, as the fraction
\* <<numerator, denominator>> with denominator max(heats_run,1)
getPerformanceScore(racerId, standings) ==
    IF ~HasStanding(racerId, standings) THEN <<0, 1>>
    ELSE LET s == StandingOf(racerId, standings)
             heatsRun == Max(s.heats_run, 1)
         IN <<s.wins * 100 * heatsRun + s.wins * 10 - s.losses * 2 * heatsRun, heatsRun>>

\* sign of a - b for fractions with positive denominators
FracCmp(a, b) ==
    LET d == a[1] * b[2] - b[1] * a[2]
    IN IF d < 0 THEN -1 ELSE IF d > 0 THEN 1 ELSE 0

\* |a - b| as a fraction
FracAbsDiff(a, b) == <<Abs(a[1] * b[2] - b[1] * a[2]), a[2] * b[2]>>

\* f + n for an integer n
FracAddInt(f, n) == <<f[1] + n * f[2], f[2]>>

\* a car number is a string: the list of its characters, each a digit 0..9 or
\* a letter, the letters numbered from 10 in alphabetical order
IsDigit(c) == c \in 0..9

\* String(n) of a number n >= 0
RECURSIVE String(_)
String(n) == IF n < 10 THEN <<n>> ELSE Append(String(n \div 10), n % 10)

\* Number.isNaN(Number(s)): a string of digits (the empty one too) is a number
IsNaN(s) == \E i \in DOMAIN s : ~IsDigit(s[i])

\* Number(s) of a string of digits
RECURSIVE NumberOf(_)
NumberOf(s) ==
    IF s = <<>> THEN 0 ELSE NumberOf(SubSeq(s, 1, Len(s) - 1)) * 10 + s[Len(s)]

\* a.localeCompare(b): by the first character that differs, digits before
\* letters, a prefix before its extensions
RECURSIVE localeCompare(_, _)
localeCompare(a, b) ==
    IF a = <<>> /\ b = <<>> THEN 0
    ELSE IF a = <<>> THEN -1
    ELSE IF b = <<>> THEN 1
    ELSE IF Head(a) # Head(b) THEN (IF Head(a) < Head(b) THEN -1 ELSE 1)
    ELSE localeCompare(Tail(a), Tail(b))

compareCarNumbers(a, b) ==
    IF ~IsNaN(a) /\ ~IsNaN(b) THEN NumberOf(a) - NumberOf(b)
    ELSE localeCompare(a, b)

\* the loop over the history stopping one heat early
HeatEntriesButLast(existingHeats) ==
    UNION {{<<h, k>> : k \in DOMAIN existingHeats[h].lanes} :
              h \in 1..(Len(existingHeats) - 1)}

\* the loop over the history passing over the heats that are not complete
HeatEntriesOfComplete(existingHeats) ==
    UNION {{<<h, k>> : k \in DOMAIN existingHeats[h].lanes} :
              h \in {g \in DOMAIN existingHeats : existingHeats[g].status = "complete"}}

\* every (heat index, lane entry index) of a history
HeatEntries(existingHeats) ==
    UNION {{<<h, k>> : k \in DOMAIN existingHeats[h].lanes} : h \in DOMAIN existingHeats}

\* the lane loop without its guard `laneIdx < 0`
buildPlanningStateFromLaneZero(racers, laneCount, rounds, existingHeats) ==
    LET ids == IdsOf(racers)
        counted == {<<e[1], existingHeats[e[1]].lanes[e[2]].lane_number,
                      existingHeats[e[1]].lanes[e[2]].racer_id>> :
                        e \in {c \in HeatEntries(existingHeats) :
                                  LET lane == existingHeats[c[1]].lanes[c[2]]
                                  IN /\ lane.lane_number - 1 < laneCount
                                     /\ lane.racer_id \in ids}}
        laneCounts == Stored([r \in ids |-> Stored([l \in 1..laneCount |->
                          Cardinality({e \in counted : e[3] = r /\ e[2] = l})])])
        heatRacerIds == Stored([h \in DOMAIN existingHeats |-> {e[3] : e \in {c \in counted : c[1] = h}}])
        laneNeeds == Stored([r \in ids |-> Stored([l \in 1..laneCount |->
                          Max(0, rounds - laneCounts[r][l])])])
    IN [laneCountsByRacer |-> laneCounts,
        laneNeedsByRacer |-> laneNeeds,
        totalAssignmentsByRacer |->
            Stored([r \in ids |-> Cardinality({e \in counted : e[3] = r})]),
        totalNeedsByRacer |->
            Stored([r \in ids |-> SumSeq(laneNeeds[r])]),
        laneUsageTotals |->
            Stored([l \in 1..laneCount |-> Cardinality({e \in counted : e[2] = l})]),
        pairCounts |->
            Stored([pr \in {p \in ids \X ids : p[1] # p[2]} |->
                Cardinality({h \in DOMAIN existingHeats :
                                pr[1] \in heatRacerIds[h] /\ pr[2] \in heatRacerIds[h]})])]

buildPlanningState(racers, laneCount, rounds, existingHeats) ==
    LET ids == IdsOf(racers)
        \* the lane entries that pass both `continue` guards of the lane loop,
        \* as <<heat index, lane_number, racer_id>>
        counted == {<<e[1], existingHeats[e[1]].lanes[e[2]].lane_number,
                      existingHeats[e[1]].lanes[e[2]].racer_id>> :
                        e \in {c \in HeatEntries(existingHeats) :
                                  LET lane == existingHeats[c[1]].lanes[c[2]]
                                  IN /\ lane.lane_number - 1 >= 0
                                     /\ lane.lane_number - 1 < laneCount
                                     /\ lane.racer_id \in ids}}
        laneCounts == Stored([r \in ids |-> Stored([l \in 1..laneCount |->
                          Cardinality({e \in counted : e[3] = r /\ e[2] = l})])])
        heatRacerIds == Stored([h \in DOMAIN existingHeats |-> {e[3] : e \in {c \in counted : c[1] = h}}])
        laneNeeds == Stored([r \in ids |-> Stored([l \in 1..laneCount |->
                          Max(0, rounds - laneCounts[r][l])])])
    IN [laneCountsByRacer |-> laneCounts,
        laneNeedsByRacer |-> laneNeeds,
        totalAssignmentsByRacer |->
            Stored([r \in ids |-> Cardinality({e \in counted : e[3] = r})]),
        totalNeedsByRacer |->
            Stored([r \in ids |-> SumSeq(laneNeeds[r])]),
        laneUsageTotals |->
            Stored([l \in 1..laneCount |-> Cardinality({e \in counted : e[2] = l})]),
        pairCounts |->
            Stored([pr \in {p \in ids \X ids : p[1] # p[2]} |->
                Cardinality({h \in DOMAIN existingHeats :
                                pr[1] \in heatRacerIds[h] /\ pr[2] \in heatRacerIds[h]})])]

\* lanes ordered by demand descending, lane usage ascending, lane number ascending;
\* the first heatSize of them
\* the comparator putting the lanes of least demand first
LaneBeforeLeastDemand(a, b, demand, laneUsageTotals) ==
    IF demand[b] # demand[a] THEN demand[a] < demand[b]
    ELSE IF laneUsageTotals[a] # laneUsageTotals[b] THEN laneUsageTotals[a] < laneUsageTotals[b]
    ELSE a < b

LaneBefore(a, b, demand, laneUsageTotals) ==
    IF demand[b] # demand[a] THEN demand[a] > demand[b]
    ELSE IF laneUsageTotals[a] # laneUsageTotals[b] THEN laneUsageTotals[a] < laneUsageTotals[b]
    ELSE a < b

pickLanesForHeat(laneCount, heatSize, racersNeedingRuns, laneNeedsByRacer, laneUsageTotals) ==
    LET demand == [l \in 1..laneCount |->
                      SumSeq([i \in DOMAIN racersNeedingRuns |->
                                 laneNeedsByRacer[racersNeedingRuns[i].id][l]])]
        rank(l) == 1 + Cardinality({o \in 1..laneCount : o # l /\ LaneBefore(o, l, demand, laneUsageTotals)})
        sorted == [k \in 1..laneCount |-> CHOOSE l \in 1..laneCount : rank(l) = k]
    IN SubSeq(sorted, 1, Min(heatSize, laneCount))

\* the comparator putting the racers of least total need first
UrgencyCmpLeastNeed(a, b, ps, standings) ==
    LET aNeeds == ps.totalNeedsByRacer[a.id]
        bNeeds == ps.totalNeedsByRacer[b.id]
        aAssignments == ps.totalAssignmentsByRacer[a.id]
        bAssignments == ps.totalAssignmentsByRacer[b.id]
        aPerf == getPerformanceScore(a.id, standings)
        bPerf == getPerformanceScore(b.id, standings)
    IN IF bNeeds # aNeeds THEN aNeeds - bNeeds
       ELSE IF aAssignments # bAssignments THEN aAssignments - bAssignments
       ELSE Bound([byPerformance \in {FracCmp(bPerf, aPerf)} |->
                IF byPerformance # 0 THEN byPerformance
                ELSE compareCarNumbers(a.car_number, b.car_number)])

\* the comparator of sortedByUrgency: negative when a sorts before b
UrgencyCmp(a, b, ps, standings) ==
    LET aNeeds == ps.totalNeedsByRacer[a.id]
        bNeeds == ps.totalNeedsByRacer[b.id]
        aAssignments == ps.totalAssignmentsByRacer[a.id]
        bAssignments == ps.totalAssignmentsByRacer[b.id]
        aPerf == getPerformanceScore(a.id, standings)
        bPerf == getPerformanceScore(b.id, standings)
    IN IF bNeeds # aNeeds THEN bNeeds - aNeeds
       ELSE IF aAssignments # bAssignments THEN aAssignments - bAssignments
       ELSE Bound([byPerformance \in {FracCmp(bPerf, aPerf)} |->
                IF byPerformance # 0 THEN byPerformance
                ELSE compareCarNumbers(a.car_number, b.car_number)])

\* sortedByUrgency[0]: the sort is stable, so among equals the first of the list
SeedIndex(racersNeedingRuns, ps, standings) ==
    CHOOSE i \in DOMAIN racersNeedingRuns :
        \A j \in DOMAIN racersNeedingRuns :
            \E c \in {UrgencyCmp(racersNeedingRuns[i], racersNeedingRuns[j], ps, standings)} :
                c < 0 \/ (c = 0 /\ i <= j)

\* the score without its performanceDistance term
CandidateScoreWithoutParity(candidate, participants, selectedLanes, seedPerformance, ps, standings) ==
    LET laneNeeds == ps.laneNeedsByRacer[candidate.id]
        neededOpenLanes == SumSeq([k \in DOMAIN selectedLanes |->
                                      IF laneNeeds[selectedLanes[k]] > 0 THEN 1 ELSE 0])
        repeatedMatchPenalty == SumSeq([k \in DOMAIN participants |->
                                           ps.pairCounts[<<participants[k].id, candidate.id>>]])
        totalNeeds == ps.totalNeedsByRacer[candidate.id]
        totalAssignments == ps.totalAssignmentsByRacer[candidate.id]
        laneCoveragePenalty == IF neededOpenLanes = 0 THEN 200 ELSE 0
    IN <<laneCoveragePenalty + repeatedMatchPenalty * 12
             + totalAssignments * 2 - totalNeeds * 6, 1>>

\* score of a candidate, as a fraction
CandidateScore(candidate, participants, selectedLanes, seedPerformance, ps, standings) ==
    LET laneNeeds == ps.laneNeedsByRacer[candidate.id]
        neededOpenLanes == SumSeq([k \in DOMAIN selectedLanes |->
                                      IF laneNeeds[selectedLanes[k]] > 0 THEN 1 ELSE 0])
        performanceDistance == FracAbsDiff(getPerformanceScore(candidate.id, standings),
                                           seedPerformance)
        repeatedMatchPenalty == SumSeq([k \in DOMAIN participants |->
                                           ps.pairCounts[<<participants[k].id, candidate.id>>]])
        totalNeeds == ps.totalNeedsByRacer[candidate.id]
        totalAssignments == ps.totalAssignmentsByRacer[candidate.id]
        laneCoveragePenalty == IF neededOpenLanes = 0 THEN 200 ELSE 0
    IN FracAddInt(<<performanceDistance[1] * 4, performanceDistance[2]>>,
                  laneCoveragePenalty + repeatedMatchPenalty * 12
                      + totalAssignments * 2 - totalNeeds * 6)

\* the inner for-loop taking a candidate whose score is not above the best: lowest
\* score, last found
BestCandidateIndexLastFound(racersNeedingRuns, participants, selectedLanes, seedPerformance, ps, standings) ==
    LET open == {i \in DOMAIN racersNeedingRuns :
                    racersNeedingRuns[i].id \notin IdsOf(participants)}
        score(i) == CandidateScore(racersNeedingRuns[i], participants, selectedLanes,
                                   seedPerformance, ps, standings)
    IN IF open = {} THEN 0
       ELSE CHOOSE i \in open :
                \A j \in open : \E c \in {FracCmp(score(i), score(j))} :
                                    c < 0 \/ (c = 0 /\ i >= j)

\* the candidate the inner for-loop leaves in bestCandidate: lowest score, first found
BestCandidateIndex(racersNeedingRuns, participants, selectedLanes, seedPerformance, ps, standings) ==
    LET open == {i \in DOMAIN racersNeedingRuns :
                    racersNeedingRuns[i].id \notin IdsOf(participants)}
        score(i) == CandidateScore(racersNeedingRuns[i], participants, selectedLanes,
                                   seedPerformance, ps, standings)
    IN IF open = {} THEN 0
       ELSE CHOOSE i \in open :
                \A j \in open : \E c \in {FracCmp(score(i), score(j))} :
                                    c < 0 \/ (c = 0 /\ i <= j)

RECURSIVE GrowParticipants(_, _, _, _, _, _, _)
GrowParticipants(participants, racersNeedingRuns, heatSize, selectedLanes, seedPerformance, ps, standings) ==
    IF Len(participants) >= heatSize THEN participants
    ELSE Bound([best \in {BestCandidateIndex(racersNeedingRuns, participants, selectedLanes,
                                             seedPerformance, ps, standings)} |->
             IF best = 0 THEN participants
             ELSE GrowParticipants(Append(participants, racersNeedingRuns[best]),
                                   racersNeedingRuns, heatSize, selectedLanes,
                                   seedPerformance, ps, standings)])

chooseParticipants(racersNeedingRuns, heatSize, selectedLanes, ps, standings) ==
    IF racersNeedingRuns = <<>> THEN <<>>
    ELSE Bound([seedRacer \in {racersNeedingRuns[SeedIndex(racersNeedingRuns, ps, standings)]} |->
         Bound([seedPerformance \in {getPerformanceScore(seedRacer.id, standings)} |->
             GrowParticipants(<<seedRacer>>, racersNeedingRuns, heatSize, selectedLanes,
                              seedPerformance, ps, standings)])])

\* the cost with the penalty of 80 on the lanes the racer needs
LaneCostNeedPenalised(participant, laneNumber, ps) ==
    (IF ps.laneNeedsByRacer[participant.id][laneNumber] > 0 THEN 80 ELSE 0)
        + ps.laneCountsByRacer[participant.id][laneNumber] * 8
        + ps.laneUsageTotals[laneNumber]

\* cost of putting participant on laneNumber
LaneCost(participant, laneNumber, ps) ==
    LET need == ps.laneNeedsByRacer[participant.id][laneNumber]
        historicalLaneCount == ps.laneCountsByRacer[participant.id][laneNumber]
        laneUsage == ps.laneUsageTotals[laneNumber]
        laneNeedPenalty == IF need > 0 THEN 0 ELSE 80
        laneRepeatPenalty == historicalLaneCount * 8
        laneBalancePenalty == laneUsage
    IN laneNeedPenalty + laneRepeatPenalty + laneBalancePenalty

\* best == [found, cost, assignment]: bestCost (infinite while not found) and bestAssignment
NoBest == [found |-> FALSE, cost |-> 0, assignment |-> <<>>]

RECURSIVE recurse(_, _, _, _, _, _, _)
RECURSIVE recurseLanes(_, _, _, _, _, _, _, _)

\* recurse keeping the first assignment it completes
recurseKeepFirst(participantIdx, currentCost, usedLaneIndexes, currentAssignment, best, participants, sp) ==
    IF participantIdx > Len(participants)
    THEN IF ~best.found
         THEN [found |-> TRUE, cost |-> currentCost, assignment |-> currentAssignment]
         ELSE best
    ELSE IF best.found /\ currentCost >= best.cost THEN best
    ELSE recurseLanes(1, participantIdx, currentCost, usedLaneIndexes, currentAssignment,
                      best, participants, sp)

\* recurse(participantIdx, currentCost) with the closure's state passed along
recurse(participantIdx, currentCost, usedLaneIndexes, currentAssignment, best, participants, sp) ==
    IF participantIdx > Len(participants)
    THEN IF ~best.found \/ currentCost < best.cost
         THEN [found |-> TRUE, cost |-> currentCost, assignment |-> currentAssignment]
         ELSE best
    ELSE IF best.found /\ currentCost >= best.cost THEN best
    ELSE recurseLanes(1, participantIdx, currentCost, usedLaneIndexes, currentAssignment,
                      best, participants, sp)

\* the for-loop over laneIdx without its usedLaneIndexes guard
recurseLanesAnyLane(laneIdx, participantIdx, currentCost, usedLaneIndexes, currentAssignment, best, participants, sp) ==
    IF laneIdx > Len(sp.selectedLanes) THEN best
    ELSE LET participant == participants[participantIdx]
             laneNumber == sp.selectedLanes[laneIdx]
             candidateCost == currentCost + LaneCost(participant, laneNumber, sp.ps)
             after == recurse(participantIdx + 1, candidateCost,
                              usedLaneIndexes \cup {laneIdx},
                              Append(currentAssignment,
                                     [lane_number |-> laneNumber, racer_id |-> participant.id]),
                              best, participants, sp)
         IN recurseLanes(laneIdx + 1, participantIdx, currentCost, usedLaneIndexes,
                         currentAssignment, after, participants, sp)

\* the for-loop over laneIdx inside recurse
recurseLanes(laneIdx, participantIdx, currentCost, usedLaneIndexes, currentAssignment, best, participants, sp) ==
    IF laneIdx > Len(sp.selectedLanes) THEN best
    ELSE IF laneIdx \in usedLaneIndexes
    THEN recurseLanes(laneIdx + 1, participantIdx, currentCost, usedLaneIndexes,
                      currentAssignment, best, participants, sp)
    ELSE LET participant == participants[participantIdx]
             laneNumber == sp.selectedLanes[laneIdx]
             candidateCost == currentCost + LaneCost(participant, laneNumber, sp.ps)
             after == recurse(participantIdx + 1, candidateCost,
                              usedLaneIndexes \cup {laneIdx},
                              Append(currentAssignment,
                                     [lane_number |-> laneNumber, racer_id |-> participant.id]),
                              best, participants, sp)
         IN recurseLanes(laneIdx + 1, participantIdx, currentCost, usedLaneIndexes,
                         currentAssignment, after, participants, sp)

\* a list of lane entries sorted by lane_number; the sort is stable
SortByLane(lanes) ==
    LET rank(i) == 1 + Cardinality({j \in DOMAIN lanes :
                                       \/ lanes[j].lane_number < lanes[i].lane_number
                                       \/ /\ lanes[j].lane_number = lanes[i].lane_number
                                          /\ j < i})
    IN [k \in 1..Len(lanes) |-> lanes[CHOOSE i \in DOMAIN lanes : rank(i) = k]]

\* the end of assignLanes without its progress check
AssignmentResultUnchecked(bestAssignment, ps) ==
    IF Len(bestAssignment) = 0 THEN <<>> ELSE SortByLane(bestAssignment)

\* the progress check at the end of assignLanes
AssignmentResult(bestAssignment, ps) ==
    LET assignmentProgress ==
            SumSeq([k \in DOMAIN bestAssignment |->
                       IF ps.laneNeedsByRacer[bestAssignment[k].racer_id][bestAssignment[k].lane_number] > 0
                       THEN 1 ELSE 0])
    IN IF Len(bestAssignment) = 0 \/ assignmentProgress = 0
       THEN <<>>
       ELSE SortByLane(bestAssignment)

\* null is the empty list
assignLanes(participants, selectedLanes, ps) ==
    AssignmentResult(recurse(1, 0, {}, <<>>, NoBest, participants,
                             [selectedLanes |-> selectedLanes, ps |-> ps]).assignment, ps)

\* the roster without the filter
NeedingRunsWholeRoster(racers, ps) == racers

\* the filter with its comparison off by one
NeedingRunsOffByOne(racers, ps) ==
    SelectSeq(racers, LAMBDA racer : ps.totalNeedsByRacer[racer.id] > 1)

NeedingRuns(racers, ps) ==
    SelectSeq(racers, LAMBDA racer : ps.totalNeedsByRacer[racer.id] > 0)

\* planNextHeat taking a lane count below one for one lane
planNextHeatAtLeastOneLane(racers, inputLaneCount, inputRounds, standings, existingHeats) ==
    LET laneCount == Max(1, inputLaneCount)
        rounds == Max(DEFAULT_ROUNDS, inputRounds)
    IN IF laneCount = 0 \/ Len(racers) = 0 THEN NullHeat
       ELSE
       Bound([ps \in {buildPlanningState(racers, laneCount, rounds, existingHeats)} |->
       Bound([racersNeedingRuns \in {NeedingRuns(racers, ps)} |->
       IF Len(racersNeedingRuns) = 0 THEN NullHeat
       ELSE
       Bound([heatSize \in {Min(laneCount, Len(racersNeedingRuns))} |->
       Bound([selectedLanes \in {pickLanesForHeat(laneCount, heatSize, racersNeedingRuns,
                                                  ps.laneNeedsByRacer, ps.laneUsageTotals)} |->
       Bound([participants \in {chooseParticipants(racersNeedingRuns, heatSize,
                                                   selectedLanes, ps, standings)} |->
       IF Len(participants) < heatSize THEN NullHeat
       ELSE [lanes |-> assignLanes(participants, selectedLanes, ps)]
       ])])])])])

planNextHeat(racers, inputLaneCount, inputRounds, standings, existingHeats) ==
    LET laneCount == Max(0, inputLaneCount)
        rounds == Max(DEFAULT_ROUNDS, inputRounds)
    IN IF laneCount = 0 \/ Len(racers) = 0 THEN NullHeat
       ELSE
       Bound([ps \in {buildPlanningState(racers, laneCount, rounds, existingHeats)} |->
       Bound([racersNeedingRuns \in {NeedingRuns(racers, ps)} |->
       IF Len(racersNeedingRuns) = 0 THEN NullHeat
       ELSE
       Bound([heatSize \in {Min(laneCount, Len(racersNeedingRuns))} |->
       Bound([selectedLanes \in {pickLanesForHeat(laneCount, heatSize, racersNeedingRuns,
                                                  ps.laneNeedsByRacer, ps.laneUsageTotals)} |->
       Bound([participants \in {chooseParticipants(racersNeedingRuns, heatSize,
                                                   selectedLanes, ps, standings)} |->
       IF Len(participants) < heatSize THEN NullHeat
       ELSE [lanes |-> assignLanes(participants, selectedLanes, ps)]
       ])])])])])

\* the in-flight filter taking only running heats for heats in flight
InFlightCountRunningOnly(heats) == Len(SelectSeq(heats, LAMBDA heat : heat.status = "running"))

InFlightCount(heats) == Len(SelectSeq(heats, LAMBDA heat : heat.status # "complete"))

\* the for-loop of planHeatQueue, i from forwardHeats up to lookahead - 1
RECURSIVE QueueLoop(_, _, _, _, _, _, _, _)
\* the loop without its push onto planningHeats: every call sees the same history
QueueLoopStaleHistory(i, lookahead, plannedHeats, planningHeats, racers, laneCount, rounds, standings) ==
    IF i >= lookahead THEN plannedHeats
    ELSE Bound([nextHeat \in {planNextHeat(racers, laneCount, rounds, standings,
                                           planningHeats)} |->
             IF nextHeat = NullHeat THEN plannedHeats
             ELSE QueueLoop(i + 1, lookahead, Append(plannedHeats, nextHeat), planningHeats,
                            racers, laneCount, rounds, standings)])

\* the loop leaving after the first heat it plans
QueueLoopOneHeat(i, lookahead, plannedHeats, planningHeats, racers, laneCount, rounds, standings) ==
    IF i >= lookahead THEN plannedHeats
    ELSE Bound([nextHeat \in {planNextHeat(racers, laneCount, rounds, standings,
                                           planningHeats)} |->
             IF nextHeat = NullHeat THEN plannedHeats ELSE Append(plannedHeats, nextHeat)])

QueueLoop(i, lookahead, plannedHeats, planningHeats, racers, laneCount, rounds, standings) ==
    IF i >= lookahead THEN plannedHeats
    ELSE Bound([nextHeat \in {planNextHeat(racers, laneCount, rounds, standings,
                                           planningHeats)} |->
             IF nextHeat = NullHeat THEN plannedHeats
             ELSE QueueLoop(i + 1, lookahead, Append(plannedHeats, nextHeat),
                            Append(planningHeats,
                                   [status |-> "pending", lanes |-> nextHeat.lanes]),
                            racers, laneCount, rounds, standings)])

\* planHeatQueue with its loop counting from zero, not from the heats in flight
planHeatQueueFromZero(racers, laneCount, rounds, standings, existingHeats, inputLookahead) ==
    LET lookahead == Max(1, inputLookahead)
        forwardHeats == InFlightCount(existingHeats)
    IN IF forwardHeats >= lookahead THEN <<>>
       ELSE QueueLoop(0, lookahead, <<>>, existingHeats,
                      racers, laneCount, rounds, standings)

planHeatQueue(racers, laneCount, rounds, standings, existingHeats, inputLookahead) ==
    LET lookahead == Max(1, inputLookahead)
        forwardHeats == InFlightCount(existingHeats)
    IN IF forwardHeats >= lookahead THEN <<>>
       ELSE QueueLoop(forwardHeats, lookahead, <<>>, existingHeats,
                      racers, laneCount, rounds, standings)

\* the lookahead brought into the range 2..3
clampLookaheadIntoRange(lookahead) == Max(2, Min(3, lookahead))

clampLookahead(lookahead) == IF lookahead = 2 THEN 2 ELSE 3

\* ------------------------------------------------------------ elimination
NullTime == -1     \* avg_time_ms of a racer with no timed result (null)

compareAverageTimes(a, b) ==
    IF a = NullTime /\ b = NullTime THEN 0
    ELSE IF a = NullTime THEN 1
    ELSE IF b = NullTime THEN -1
    ELSE a - b

\* the cut rounding the half down
getNextFieldSizeRoundedDown(currentFieldSize) ==
    IF currentFieldSize <= 2 THEN Max(1, currentFieldSize)
    ELSE Max(2, currentFieldSize \div 2)

getNextFieldSize(currentFieldSize) ==
    IF currentFieldSize <= 2 THEN Max(1, currentFieldSize)
    ELSE Max(2, (currentFieldSize + 1) \div 2)

RECURSIVE PlanLoop(_, _)
PlanLoop(plan, currentFieldSize) ==
    IF currentFieldSize > 2
    THEN LET nextSize == getNextFieldSize(currentFieldSize)
         IN IF nextSize = currentFieldSize THEN plan
            ELSE PlanLoop(Append(plan, nextSize), nextSize)
    ELSE plan

\* the plan without its first element, the starting field size
buildEliminationPlanOfCuts(startingFieldSize) ==
    IF startingFieldSize <= 0 THEN <<>>
    ELSE PlanLoop(<<>>, startingFieldSize)

buildEliminationPlan(startingFieldSize) ==
    IF startingFieldSize <= 0 THEN <<>>
    ELSE PlanLoop(<<startingFieldSize>>, startingFieldSize)

\* the comparator of rankedRacers: negative when a ranks ahead of b
SurvivorCmp(a, b, standings) ==
    LET hasA == HasStanding(a.id, standings)
        hasB == HasStanding(b.id, standings)
        winsA == IF hasA THEN StandingOf(a.id, standings).wins ELSE 0
        winsB == IF hasB THEN StandingOf(b.id, standings).wins ELSE 0
        lossesA == IF hasA THEN StandingOf(a.id, standings).losses ELSE 0
        lossesB == IF hasB THEN StandingOf(b.id, standings).losses ELSE 0
        avgA == IF hasA THEN StandingOf(a.id, standings).avg_time_ms ELSE NullTime
        avgB == IF hasB THEN StandingOf(b.id, standings).avg_time_ms ELSE NullTime
        heatsRunA == IF hasA THEN StandingOf(a.id, standings).heats_run ELSE 0
        heatsRunB == IF hasB THEN StandingOf(b.id, standings).heats_run ELSE 0
    IN IF winsB # winsA THEN winsB - winsA
       ELSE IF lossesA # lossesB THEN lossesA - lossesB
       ELSE IF compareAverageTimes(avgA, avgB) # 0 THEN compareAverageTimes(avgA, avgB)
       ELSE IF heatsRunB # heatsRunA THEN heatsRunB - heatsRunA
       ELSE compareCarNumbers(a.car_number, b.car_number)

\* [...activeRacers].sort(cmp): a stable sort, position by the number of racers ahead
RankedRacers(activeRacers, standings) ==
    LET ahead(i) == {j \in DOMAIN activeRacers :
                        LET c == SurvivorCmp(activeRacers[j], activeRacers[i], standings)
                        IN c < 0 \/ (c = 0 /\ j < i)}
    IN [k \in 1..Len(activeRacers) |->
           activeRacers[CHOOSE i \in DOMAIN activeRacers : Cardinality(ahead(i)) = k - 1]]

\* survivor selection that cuts nobody
\* the cut without its early return for a field of two or fewer
selectSurvivorsAlwaysRanked(activeRacers, standings) ==
    SubSeq(RankedRacers(activeRacers, standings), 1,
           Min(Len(activeRacers), getNextFieldSize(Len(activeRacers))))

selectSurvivorsKeepAll(activeRacers, standings) ==
    IF Len(activeRacers) <= 2 THEN activeRacers
    ELSE RankedRacers(activeRacers, standings)

selectSurvivorsForNextRound(activeRacers, standings) ==
    IF Len(activeRacers) <= 2 THEN activeRacers
    ELSE LET survivorsNeeded == getNextFieldSize(Len(activeRacers))
         IN SubSeq(RankedRacers(activeRacers, standings), 1, survivorsNeeded)

\* ------------------------------------------------------------ state
VARIABLES
    \* planner harness: the input of the next planning call
    pRacers,        \* roster, a list of [id, car_number]
    pLaneCount,
    pRounds,
    pStandings,     \* list of [racer_id, wins, losses, heats_run]
    pHistory,       \* existingHeats, a list of [status, lanes]
    pArb,           \* number of heats of pHistory that no planner call produced
    calls,          \* the planner calls a caller has made on its arrays, with their results
    \* elimination harness
    fieldSize,      \* the field size given to the elimination policy
    fieldPlan,      \* the elimination plan last built and its starting size, or <<>>
    \* event service: the database
    events,         \* ids of the events that exist
    nRacers,        \* per event, the number of racers that passed inspection
    eventLaneCount, \* per event, events.lane_count
    eventStatus,    \* per event, events.status
    heats,          \* the heats table with lanes and results, in creation order
    settings,       \* per event, its event_planning_settings row, or NoSettings
    rosterCache,    \* the round_racer_rosters table: rows <<event, round, racer id>>
    replays,        \* requests so far that targeted an already complete heat
    requests,       \* results requests whose body is still being read, by heat id
    restarts,       \* times the server process was stopped and started again
    \* K1 timer: one call of the protocol parser
    line,           \* the line given to parseRaceDataLine
    parseOptions,   \* its options
    parsedLine,     \* what it returned, or NotParsed before the call
    \* K1 timer: one run of the hardware test harness
    options,        \* the command line options of the run
    port,           \* the serial port: "opening", "open" or "closed"
    commandQueue,   \* startup commands queued and not yet written
    capturedRacePackets,
    finished,
    timeoutHandle,  \* the overall timeout: "none", "armed" or "fired"
    finishCall,     \* the call of finish that got past its guard, or NoFinish
    exitCode,       \* the exit code of the process, or Running
    racePacketLog   \* lane counts of the "Race packet k/n" lines logged

elimVars == <<fieldSize, fieldPlan>>
callVars == <<calls>>
harnessVars == <<pRacers, pLaneCount, pRounds, pStandings, pHistory, pArb, calls, fieldSize,
                 fieldPlan>>
serviceVars == <<events, nRacers, eventLaneCount, eventStatus, heats, settings, rosterCache, replays,
                 requests, restarts>>
protocolVars == <<line, parseOptions, parsedLine>>
runVars == <<options, port, commandQueue, capturedRacePackets, finished, timeoutHandle, finishCall,
             exitCode, racePacketLog>>
timerVars == <<protocolVars, runVars>>
vars == <<pRacers, pLaneCount, pRounds, pStandings, pHistory, pArb, calls, fieldSize, fieldPlan,
          events, nRacers, eventLaneCount, eventStatus, heats, settings, rosterCache, replays,
          requests, restarts, line, parseOptions, parsedLine, options, port, commandQueue,
          capturedRacePackets, finished, timeoutHandle, finishCall, exitCode, racePacketLog>>

HeatStatuses == {"pending", "running", "complete"}

\* ------------------------------------------------------------ planner harness
\* rosters as the tests build them (car number 100 + id), or with the car
\* numbers in the opposite order to the ids
Roster(n, descending) ==
    [i \in 1..n |-> [id |-> i,
                     car_number |-> String(IF descending THEN 100 + n + 1 - i ELSE 100 + i)]]

\* standings lists offered to the planner for a roster of n racers
StandingsChoices(n) ==
    { <<>>,
      [i \in 1..n |-> IF i % 2 = 1
                      THEN [racer_id |-> i, wins |-> 2, losses |-> 0, heats_run |-> 2]
                      ELSE [racer_id |-> i, wins |-> 0, losses |-> 2, heats_run |-> 2]],
      [i \in 1..Min(n, 2) |-> [racer_id |-> i + 1, wins |-> i, losses |-> 1, heats_run |-> 4]] }

\* every heat with distinct lanes out of 1..laneCount and distinct racers out
\* of 1..n; a history can hold heats of racers and lanes the call is not about
ArbitraryLaneLists(n, laneCount) ==
    UNION {{SortByLane(f) : f \in {g \in [1..k -> [lane_number : 1..laneCount, racer_id : 1..n]] :
                              \A i, j \in 1..k : i # j =>
                                  /\ g[i].lane_number # g[j].lane_number
                                  /\ g[i].racer_id # g[j].racer_id}}
           : k \in 1..Min(n, laneCount)}

NotParsed == [called |-> FALSE]
NoFinish == [at |-> "none", passed |-> FALSE, message |-> "", awaiting |-> 0]
Running == -1

NoProtocol ==
    /\ line = <<>>
    /\ parseOptions = <<>>
    /\ parsedLine = NotParsed

NoRun ==
    /\ options = <<>>
    /\ port = "closed"
    /\ commandQueue = 0
    /\ capturedRacePackets = 0
    /\ finished = FALSE
    /\ timeoutHandle = "none"
    /\ finishCall = NoFinish
    /\ exitCode = Running
    /\ racePacketLog = <<>>

NoTimer == NoProtocol /\ NoRun

NoElimination ==
    /\ fieldSize = 0
    /\ fieldPlan = <<>>

NoService ==
    /\ events = {}
    /\ nRacers = <<>>
    /\ eventLaneCount = <<>>
    /\ eventStatus = <<>>
    /\ heats = <<>>
    /\ settings = <<>>
    /\ rosterCache = {}
    /\ replays = 0
    /\ requests = <<>>
    /\ restarts = 0

InitPlan ==
    /\ \E n \in 0..MaxRacers, descending \in BOOLEAN :
          /\ pRacers = Roster(n, descending)
          /\ pStandings \in StandingsChoices(n)
    /\ pLaneCount \in -1..MaxLanes
    /\ pRounds \in 1..MaxRounds
    /\ pHistory = <<>>
    /\ pArb = 0
    /\ calls = <<>>
    /\ NoTimer
    /\ NoElimination
    /\ NoService

InitDrive ==
    /\ InitPlan
    /\ pLaneCount >= 0
    /\ pStandings = <<>>

NextPlanned == planNextHeat(pRacers, pLaneCount, pRounds, pStandings, pHistory)

\* the planned heats of the history all carry the given status
PlannedAll(status) ==
    \A h \in DOMAIN pHistory : h > pArb => pHistory[h].status = status

\* one turn of a planning loop: plan a heat and push it to the history, as
\* complete (the tests' loops) or as pending (planHeatQueue's loop)
AppendPlanned(status) ==
    /\ Len(pHistory) < MaxHistory
    /\ PlannedAll(status)
    /\ \E nextHeat \in {NextPlanned} :
          /\ nextHeat # NullHeat
          /\ pHistory' = Append(pHistory, [status |-> status, lanes |-> nextHeat.lanes])
    /\ UNCHANGED <<pRacers, pLaneCount, pRounds, pStandings, pArb>>
    /\ UNCHANGED elimVars
    /\ UNCHANGED callVars
    /\ UNCHANGED <<serviceVars, timerVars>>

DriveStep == AppendPlanned("complete")

\* a caller-supplied heat enters the history, ahead of the planned ones
AppendArbitrary ==
    /\ pArb < MaxArbHeats
    /\ pArb = Len(pHistory)
    /\ \E lanes \in ArbitraryLaneLists(MaxRacers, MaxLanes), status \in HeatStatuses :
          pHistory' = Append(pHistory, [status |-> status, lanes |-> lanes])
    /\ pArb' = pArb + 1
    /\ UNCHANGED <<pRacers, pLaneCount, pRounds, pStandings>>
    /\ UNCHANGED elimVars
    /\ UNCHANGED callVars
    /\ UNCHANGED <<serviceVars, timerVars>>

\* the lookahead values a caller of planHeatQueue passes
LookaheadInputs == 0..MaxLookahead

PlannedQueue(lookahead) ==
    planHeatQueue(pRacers, pLaneCount, pRounds, pStandings, pHistory, lookahead)

\* a caller persists a planned queue: every heat of it joins the history as pending
AppendQueue ==
    /\ PlannedAll("pending")
    /\ \E lookahead \in LookaheadInputs :
          \E plannedHeats \in {PlannedQueue(lookahead)} :
             /\ Len(plannedHeats) > 0
             /\ Len(pHistory) + Len(plannedHeats) <= MaxHistory
             /\ pHistory' = pHistory \o [k \in DOMAIN plannedHeats |->
                                            [status |-> "pending", lanes |-> plannedHeats[k].lanes]]
    /\ UNCHANGED <<pRacers, pLaneCount, pRounds, pStandings, pArb>>
    /\ UNCHANGED elimVars
    /\ UNCHANGED callVars
    /\ UNCHANGED <<serviceVars, timerVars>>

SpecDrive == InitDrive /\ [][DriveStep]_vars

PlanNext ==
    \/ AppendPlanned("pending")
    \/ AppendPlanned("complete")
    \/ AppendArbitrary
    \/ AppendQueue

SpecPlan == InitPlan /\ [][PlanNext]_vars

\* ------------------------------------------------------------ claims on the planner
LaneNumbersOf(lanes) == {lanes[k].lane_number : k \in DOMAIN lanes}
RacerIdsOf(lanes) == {lanes[k].racer_id : k \in DOMAIN lanes}

\* C1: a heat returned by planNextHeat has pairwise distinct lane numbers, all
\* within 1..laneCount, pairwise distinct racer ids, all of the roster passed
\* in, and never more lanes than laneCount
C1_HeatWellFormed ==
    LET heat == NextPlanned
    IN heat # NullHeat =>
          /\ Len(heat.lanes) <= pLaneCount
          /\ LaneNumbersOf(heat.lanes) \subseteq 1..pLaneCount
          /\ Cardinality(LaneNumbersOf(heat.lanes)) = Len(heat.lanes)
          /\ RacerIdsOf(heat.lanes) \subseteq IdsOf(pRacers)
          /\ Cardinality(RacerIdsOf(heat.lanes)) = Len(heat.lanes)

\* C1 witness: on a history that holds a caller's heat and planned heats, the
\* planner returns a heat that fills every lane
C1_Witness ==
    /\ pArb > 0
    /\ Len(pHistory) > pArb
    /\ NextPlanned # NullHeat
    /\ Len(NextPlanned.lanes) = pLaneCount
    /\ pLaneCount = MaxLanes

\* C4 as stated: for any lookahead, planHeatQueue returns no heats when the
\* heats in flight are at least the lookahead and otherwise at most
\* (lookahead - in flight) heats; with lookahead 3 never more than 3
C4_AnyLookahead ==
    \A lookahead \in LookaheadInputs :
        LET inFlight == InFlightCount(pHistory)
            queue == PlannedQueue(lookahead)
        IN /\ inFlight >= lookahead => queue = <<>>
           /\ inFlight < lookahead => Len(queue) <= lookahead - inFlight
           /\ lookahead = 3 => Len(queue) <= 3

\* C4 amended: with the effective lookahead max(1, lookahead), planHeatQueue
\* returns no heats when the heats in flight are at least the effective
\* lookahead and otherwise at most (effective lookahead - in flight) heats;
\* with lookahead 3 never more than 3
C4_EffectiveLookahead ==
    \A lookahead \in LookaheadInputs :
        LET effective == Max(1, lookahead)
            inFlight == InFlightCount(pHistory)
            queue == PlannedQueue(lookahead)
        IN /\ inFlight >= effective => queue = <<>>
           /\ inFlight < effective => Len(queue) <= effective - inFlight
           /\ lookahead = 3 => Len(queue) <= 3

\* C4 witness: two heats are in flight and coverage remains; lookahead 2
\* yields no heat and lookahead 3 exactly one
C4_Witness ==
    /\ InFlightCount(pHistory) = 2
    /\ NextPlanned # NullHeat
    /\ PlannedQueue(2) = <<>>
    /\ Len(PlannedQueue(3)) = 1

\* the number of heats of the history in which racer r ran lane l
RunCount(r, l) ==
    Cardinality({h \in DOMAIN pHistory :
                    \E k \in DOMAIN pHistory[h].lanes :
                        /\ pHistory[h].lanes[k].racer_id = r
                        /\ pHistory[h].lanes[k].lane_number = l})

\* the driving loop has ended: the planner returns no further heat
Exhausted == NextPlanned = NullHeat

EveryLaneAtLeastRounds ==
    \A r \in IdsOf(pRacers), l \in 1..pLaneCount : RunCount(r, l) >= pRounds

\* C2 as stated: when planNextHeat, driven from an empty history with no
\* standings, returns no further heat, every racer has run every lane exactly
\* `rounds` times
C2_ExactlyRounds ==
    Exhausted => \A r \in IdsOf(pRacers), l \in 1..pLaneCount : RunCount(r, l) = pRounds

\* C2 amended: driving planNextHeat from an empty history with no standings
\* ends, after no more heats than there are (racer, lane, round) runs to
\* cover, and when it has ended every racer has run every lane at least
\* `rounds` times
C2_EndsCovered ==
    /\ Len(pHistory) <= Len(pRacers) * pLaneCount * pRounds
    /\ Exhausted => EveryLaneAtLeastRounds

\* C2 witness: a drive with fewer racers than lanes has ended after planning heats
C2_Witness ==
    /\ Exhausted
    /\ Len(pRacers) > 0
    /\ Len(pRacers) < pLaneCount
    /\ Len(pHistory) >= pLaneCount * pRounds
    /\ pRounds = MaxRounds

\* C2 witness of the other case: as many racers as MaxRacers, more than lanes
C2_WitnessManyRacers ==
    /\ Exhausted
    /\ Len(pRacers) = MaxRacers
    /\ pLaneCount = MaxLanes
    /\ Len(pHistory) > 0

\* ------------------------------------------------------------ event service
MaxEventRacers == 3   \* inspected racers per event, 0..MaxEventRacers
EventLanes == 1       \* events.lane_count of every event
MaxMultiRacers == 2   \* inspected racers per event when two events run side by side
RaceDayRounds == 2    \* the rounds setting of a race day
MaxReplays == 1       \* requests that target an already complete heat, per generated schedule
MaxEventRounds == 1   \* the rounds setting a generate-heats request may carry
IdStride == 10        \* racer ids of event e are (e - 1) * IdStride + 1, ...

NoSettings == [lane_count |-> -1, rounds |-> -1, lookahead |-> -1]
NoResult == 0         \* winner of a heat that has no results rows

\* racersRepo.findInspectedByEvent mapped to planner racers
getPlannerRacers(eventId) ==
    Stored([i \in 1..nRacers[eventId] |->
        [id |-> (eventId - 1) * IdStride + i, car_number |-> String(100 + i)]])

\* heatsRepo.findByEventWithLanes / findByEvent
findByEvent(hs, eventId) == SelectSeq(hs, LAMBDA heat : heat.event_id = eventId)

HeatRacers(heat) == {heat.lanes[k].racer_id : k \in DOMAIN heat.lanes}

\* resultsRepo.getStandings: one row per inspected racer, from the results of
\* the event's heats (a win is a first place)
getEventStandings(hs, eventId) ==
    LET racers == getPlannerRacers(eventId)
        scored == {h \in DOMAIN hs : hs[h].event_id = eventId /\ hs[h].winner # NoResult}
        wins(r) == Cardinality({h \in scored : hs[h].winner = r})
        runs(r) == Cardinality({h \in scored : r \in HeatRacers(hs[h])})
    IN Stored([i \in DOMAIN racers |->
           [racer_id |-> racers[i].id,
            wins |-> wins(racers[i].id),
            losses |-> runs(racers[i].id) - wins(racers[i].id),
            heats_run |-> runs(racers[i].id),
            avg_time_ms |-> NullTime]])

toPlannerStandings(standings) ==
    Stored([i \in DOMAIN standings |->
        [racer_id |-> standings[i].racer_id, wins |-> standings[i].wins,
         losses |-> standings[i].losses, heats_run |-> standings[i].heats_run]])

toPlannerHeats(hs) ==
    Stored([i \in DOMAIN hs |-> [status |-> hs[i].status, lanes |-> hs[i].lanes]])

\* heatsRepo.findRunning: a heat whose status is running (the first one), 0 if none
findRunning(hs) ==
    IF \E h \in DOMAIN hs : hs[h].status = "running"
    THEN hs[CHOOSE h \in DOMAIN hs :
                /\ hs[h].status = "running"
                /\ \A g \in DOMAIN hs : hs[g].status = "running" => h <= g].id
    ELSE 0

\* heatsRepo.updateStatus: writes the status of the heat with that id, whatever it was
updateStatus(hs, heatId, status) ==
    [h \in DOMAIN hs |-> IF hs[h].id = heatId THEN [hs[h] EXCEPT !.status = status] ELSE hs[h]]

\* heatsRepo.deleteByEvent (lanes and results go with the heats)
deleteByEvent(hs, eventId) == SelectSeq(hs, LAMBDA heat : heat.event_id # eventId)

HeatIds(hs) == {hs[h].id : h \in DOMAIN hs}

HasHeat(hs, heatId) == heatId \in HeatIds(hs)

HeatById(hs, heatId) == hs[CHOOSE h \in DOMAIN hs : hs[h].id = heatId]

\* an id no heat carries
FreshHeatId(hs) == CHOOSE id \in 1..(Len(hs) + 1) : id \notin HeatIds(hs)

\* heatsRepo.create: a new pending heat
createHeat(hs, eventId, round, heatNumber, lanes) ==
    Append(hs, [id |-> FreshHeatId(hs), event_id |-> eventId, round |-> round,
                heat_number |-> heatNumber, status |-> "pending", lanes |-> lanes,
                winner |-> NoResult])

\* planningStateRepo.replaceRoundRacerIds / getRoundRacerIds / clearRoundRosters
setRoundRacerCache(cache, eventId, roundNumber, racers) ==
    {row \in cache : ~(row[1] = eventId /\ row[2] = roundNumber)}
        \cup {<<eventId, roundNumber, id>> : id \in IdsOf(racers)}

clearRoundRacerCache(cache, eventId) == {row \in cache : row[1] # eventId}

\* the cached roster read without its filter: the whole field for a round that has rows
getRoundRacersFromCacheUnfiltered(cache, eventId, roundNumber, allRacers) ==
    LET cachedRacerIds == {row[3] : row \in {c \in cache : c[1] = eventId /\ c[2] = roundNumber}}
    IN IF cachedRacerIds = {} THEN <<>> ELSE allRacers

\* the cached ids come back ordered by racer_id; null is the empty list
getRoundRacersFromCache(cache, eventId, roundNumber, allRacers) ==
    LET cachedRacerIds == {row[3] : row \in {c \in cache : c[1] = eventId /\ c[2] = roundNumber}}
    IN SelectSeq(allRacers, LAMBDA racer : racer.id \in cachedRacerIds)

\* planningStateRepo.getSettings on the settings table sts
getSettings(sts, eventId) == sts[eventId]

getPlanningSettings(sts, eventId, fallbackLaneCount) ==
    LET existing == getSettings(sts, eventId)
    IN IF existing # NoSettings
       THEN [laneCount |-> existing.lane_count,
             rounds |-> Max(1, existing.rounds),
             lookahead |-> IF existing.lookahead = 2 THEN 2 ELSE 3]
       ELSE [laneCount |-> fallbackLaneCount, rounds |-> 1, lookahead |-> 3]

RECURSIVE MaxRoundOf(_)
MaxRoundOf(hs) == IF hs = <<>> THEN 1 ELSE Max(Head(hs).round, MaxRoundOf(Tail(hs)))

getHighestRound(hs) == IF Len(hs) = 0 THEN 1 ELSE MaxRoundOf(hs)

\* the roster of a later round recomputed from the round's heats alone
getRoundRacersFromHeats(cache, eventId, allRacers, roundHeats, roundNumber) ==
    IF roundNumber = 1
    THEN [racers |-> allRacers,
          cache |-> setRoundRacerCache(cache, eventId, roundNumber, allRacers)]
    ELSE LET racerIds == UNION {HeatRacers(roundHeats[h]) : h \in DOMAIN roundHeats}
             roundRacers == SelectSeq(allRacers, LAMBDA racer : racer.id \in racerIds)
         IN [racers |-> roundRacers, cache |-> cache]

\* returns [racers, cache]: the round's roster and the cache after the call
getRoundRacers(cache, eventId, allRacers, roundHeats, roundNumber) ==
    LET cachedRacers == getRoundRacersFromCache(cache, eventId, roundNumber, allRacers)
    IN IF cachedRacers # <<>> THEN [racers |-> cachedRacers, cache |-> cache]
       ELSE IF roundNumber = 1
       THEN [racers |-> allRacers,
             cache |-> setRoundRacerCache(cache, eventId, roundNumber, allRacers)]
       ELSE LET racerIds == UNION {HeatRacers(roundHeats[h]) : h \in DOMAIN roundHeats}
                roundRacers == SelectSeq(allRacers, LAMBDA racer : racer.id \in racerIds)
            IN [racers |-> roundRacers,
                cache |-> IF Len(roundRacers) > 0
                          THEN setRoundRacerCache(cache, eventId, roundNumber, roundRacers)
                          ELSE cache]

RECURSIVE MaxHeatNumberOf(_)
MaxHeatNumberOf(hs) == IF hs = <<>> THEN 0 ELSE Max(Head(hs).heat_number, MaxHeatNumberOf(Tail(hs)))

\* the highest heat number itself, not one more
getNextHeatNumberAtMax(hs) == Max(1, MaxHeatNumberOf(hs))

getNextHeatNumber(hs) == MaxHeatNumberOf(hs) + 1

RECURSIVE CreatePlanned(_, _, _, _, _)
CreatePlanned(hs, eventId, roundNumber, nextHeatNumber, plannedHeats) ==
    IF plannedHeats = <<>> THEN hs
    ELSE CreatePlanned(createHeat(hs, eventId, roundNumber, nextHeatNumber, Head(plannedHeats).lanes),
                       eventId, roundNumber, nextHeatNumber + 1, Tail(plannedHeats))

\* returns the heats table after the call
appendPlannedHeatsForRound(hs, eventId, roundNumber, racers, existingRoundHeats, standings, st) ==
    Bound([plannedHeats \in {planHeatQueue(racers, st.laneCount, st.rounds, standings,
                                           existingRoundHeats, st.lookahead)} |->
        IF Len(plannedHeats) = 0 THEN hs
        ELSE CreatePlanned(hs, eventId, roundNumber,
                           getNextHeatNumber(findByEvent(hs, eventId)), plannedHeats)])

\* returns [heats, cache]: the heats table and the roster cache after the call
topUpHeatQueue(hs, cache, eventId, st) ==
    Bound([allRacers \in {getPlannerRacers(eventId)} |->
    IF Len(allRacers) = 0 THEN [heats |-> hs, cache |-> cache]
    ELSE
    Bound([allHeatsWithLanes \in {findByEvent(hs, eventId)} |->
    Bound([currentRound \in {getHighestRound(allHeatsWithLanes)} |->
    Bound([currentRoundHeatsWithLanes \in
               {SelectSeq(allHeatsWithLanes, LAMBDA heat : heat.round = currentRound)} |->
    Bound([currentRoundPlannerHeats \in {toPlannerHeats(currentRoundHeatsWithLanes)} |->
    Bound([got \in {getRoundRacers(cache, eventId, allRacers,
                                   currentRoundHeatsWithLanes, currentRound)} |->
    Bound([currentRoundRacers \in {got.racers} |->
    Bound([afterRoster \in {[heats |-> hs, cache |-> got.cache]} |->
    IF Len(currentRoundRacers) = 0 THEN afterRoster
    ELSE
    Bound([eventStandings \in {getEventStandings(hs, eventId)} |->
    Bound([plannerStandings \in {toPlannerStandings(eventStandings)} |->
    Bound([inFlightRoundHeatCount \in {InFlightCount(currentRoundPlannerHeats)} |->
    Bound([nextRoundHeat \in {planNextHeat(currentRoundRacers, st.laneCount, st.rounds,
                                           plannerStandings, currentRoundPlannerHeats)} |->
    IF nextRoundHeat # NullHeat
    THEN IF inFlightRoundHeatCount >= st.lookahead THEN afterRoster
         ELSE [heats |-> appendPlannedHeatsForRound(hs, eventId, currentRound,
                             currentRoundRacers, currentRoundPlannerHeats,
                             plannerStandings, st),
               cache |-> got.cache]
    ELSE IF inFlightRoundHeatCount > 0 THEN afterRoster
    ELSE IF Len(currentRoundRacers) <= 2 THEN afterRoster
    ELSE
    Bound([survivors \in {selectSurvivorsForNextRound(currentRoundRacers, eventStandings)} |->
    Bound([nextRoundNumber \in {currentRound + 1} |->
        [heats |-> appendPlannedHeatsForRound(hs, eventId, nextRoundNumber,
                            survivors, <<>>, plannerStandings, st),
         cache |-> setRoundRacerCache(got.cache, eventId, nextRoundNumber, survivors)]
    ])])])])])])])])])])])])])])

\* maybeMarkEventComplete without its check for heats in flight
maybeMarkIgnoringInFlight(hs, cache, eventId, st) ==
    Bound([allRacers \in {getPlannerRacers(eventId)} |->
    IF Len(allRacers) = 0 THEN [complete |-> FALSE, cache |-> cache]
    ELSE
    Bound([allHeatsWithLanes \in {findByEvent(hs, eventId)} |->
    Bound([currentRound \in {getHighestRound(allHeatsWithLanes)} |->
    Bound([currentRoundHeatsWithLanes \in
               {SelectSeq(allHeatsWithLanes, LAMBDA heat : heat.round = currentRound)} |->
    Bound([currentRoundPlannerHeats \in {toPlannerHeats(currentRoundHeatsWithLanes)} |->
    IF Len(currentRoundPlannerHeats) = 0 THEN [complete |-> FALSE, cache |-> cache]
    ELSE
    Bound([got \in {getRoundRacers(cache, eventId, allRacers,
                                   currentRoundHeatsWithLanes, currentRound)} |->
    Bound([currentRoundRacers \in {got.racers} |->
    IF Len(currentRoundRacers) > 2 THEN [complete |-> FALSE, cache |-> got.cache]
    ELSE
    Bound([nextHeat \in {planNextHeat(currentRoundRacers, st.laneCount, st.rounds,
                                      toPlannerStandings(getEventStandings(hs, eventId)),
                                      currentRoundPlannerHeats)} |->
        [complete |-> nextHeat = NullHeat, cache |-> got.cache]
    ])])])])])])])])

\* returns [complete, cache]: whether the event is marked complete, and the cache
maybeMarkEventComplete(hs, cache, eventId, st) ==
    Bound([allRacers \in {getPlannerRacers(eventId)} |->
    IF Len(allRacers) = 0 THEN [complete |-> FALSE, cache |-> cache]
    ELSE
    Bound([allHeatsWithLanes \in {findByEvent(hs, eventId)} |->
    Bound([currentRound \in {getHighestRound(allHeatsWithLanes)} |->
    Bound([currentRoundHeatsWithLanes \in
               {SelectSeq(allHeatsWithLanes, LAMBDA heat : heat.round = currentRound)} |->
    Bound([currentRoundPlannerHeats \in {toPlannerHeats(currentRoundHeatsWithLanes)} |->
    IF Len(currentRoundPlannerHeats) = 0 THEN [complete |-> FALSE, cache |-> cache]
    ELSE IF InFlightCount(currentRoundPlannerHeats) > 0
    THEN [complete |-> FALSE, cache |-> cache]
    ELSE
    Bound([got \in {getRoundRacers(cache, eventId, allRacers,
                                   currentRoundHeatsWithLanes, currentRound)} |->
    Bound([currentRoundRacers \in {got.racers} |->
    IF Len(currentRoundRacers) > 2 THEN [complete |-> FALSE, cache |-> got.cache]
    ELSE
    Bound([nextHeat \in {planNextHeat(currentRoundRacers, st.laneCount, st.rounds,
                                      toPlannerStandings(getEventStandings(hs, eventId)),
                                      currentRoundPlannerHeats)} |->
        [complete |-> nextHeat = NullHeat, cache |-> got.cache]
    ])])])])])])])])

\* ------------------------------------------------------------ requests
\* an optional field of a request body: <<>> when absent, <<v>> when given
Given(field) == field # <<>>

InitService(eventIds) ==
    /\ events = eventIds
    /\ nRacers \in [eventIds -> 0..MaxEventRacers]
    /\ eventLaneCount = [e \in eventIds |-> EventLanes]
    /\ eventStatus = [e \in eventIds |-> "draft"]
    /\ heats = <<>>
    /\ settings = [e \in eventIds |-> NoSettings]
    /\ rosterCache = {}
    /\ replays = 0
    /\ requests = <<>>
    /\ restarts = 0
    /\ pRacers = <<>>
    /\ pLaneCount = 0
    /\ pRounds = 1
    /\ pStandings = <<>>
    /\ pHistory = <<>>
    /\ pArb = 0
    /\ calls = <<>>
    /\ NoTimer
    /\ fieldSize = 0
    /\ fieldPlan = <<>>

Init == InitService({1})

\* the part of both completion handlers after the heat is marked complete
AfterCompletion(hs, eventId) ==
    \E st \in {getPlanningSettings(settings, eventId, eventLaneCount[eventId])} :
    \E topped \in {topUpHeatQueue(hs, rosterCache, eventId, st)} :
    \E marked \in {maybeMarkEventComplete(topped.heats, topped.cache, eventId, st)} :
       /\ heats' = topped.heats
       /\ rosterCache' = marked.cache
       /\ eventStatus' = IF marked.complete
                         THEN [eventStatus EXCEPT ![eventId] = "complete"]
                         ELSE eventStatus

\* POST /api/events/:eventId/generate-heats
GenerateHeats(eventId, body) ==
    /\ eventId \in events
    /\ nRacers[eventId] > 0
    /\ \E racers \in {getPlannerRacers(eventId)}, runningHeat \in {findRunning(heats)} :
       \E stopped \in {IF runningHeat # 0 /\ HeatById(heats, runningHeat).event_id = eventId
                        THEN updateStatus(heats, runningHeat, "pending")
                        ELSE heats} :
       \E deleted \in {deleteByEvent(stopped, eventId)},
          cleared \in {clearRoundRacerCache(rosterCache, eventId)},
          laneCount \in {IF Given(body.lane_count) THEN body.lane_count[1]
                         ELSE eventLaneCount[eventId]},
          rounds \in {Max(1, IF Given(body.rounds) THEN body.rounds[1] ELSE 1)},
          lookahead \in {clampLookahead(IF Given(body.lookahead) THEN body.lookahead[1] ELSE 0)} :
       \E planningSettings \in {[laneCount |-> laneCount, rounds |-> rounds,
                                  lookahead |-> lookahead]},
          cached \in {setRoundRacerCache(cleared, eventId, 1, racers)} :
       \E topped \in {topUpHeatQueue(deleted, cached, eventId, planningSettings)} :
          /\ settings' = [settings EXCEPT ![eventId] =
                             [lane_count |-> laneCount, rounds |-> rounds, lookahead |-> lookahead]]
          /\ heats' = topped.heats
          /\ rosterCache' = topped.cache
          /\ eventStatus' = [eventStatus EXCEPT ![eventId] = "racing"]
    /\ replays' = 0
    /\ UNCHANGED <<requests, restarts, events, nRacers, eventLaneCount>>
    /\ UNCHANGED <<harnessVars, timerVars>>

\* DELETE /api/events/:eventId/heats
DeleteHeats(eventId) ==
    /\ eventId \in events
    /\ \E runningHeat \in {findRunning(heats)} :
       \E stopped \in {IF runningHeat # 0 /\ HeatById(heats, runningHeat).event_id = eventId
                        THEN updateStatus(heats, runningHeat, "pending")
                        ELSE heats} :
          heats' = deleteByEvent(stopped, eventId)
    /\ settings' = [settings EXCEPT ![eventId] = NoSettings]
    /\ rosterCache' = clearRoundRacerCache(rosterCache, eventId)
    /\ replays' = 0
    /\ UNCHANGED <<requests, restarts, events, nRacers, eventLaneCount, eventStatus>>
    /\ UNCHANGED <<harnessVars, timerVars>>

\* a request on a heat that is already complete uses up one replay
Replayed(heatId) ==
    IF HasHeat(heats, heatId) /\ HeatById(heats, heatId).status = "complete"
    THEN replays < MaxReplays /\ replays' = replays + 1
    ELSE UNCHANGED replays

\* the start handler refusing only when the running heat is of the same event
StartHeatPerEvent(heatId) ==
    /\ LET runningHeat == findRunning(heats)
       IN IF /\ runningHeat # 0
             /\ runningHeat # heatId
             /\ HasHeat(heats, heatId)
             /\ HeatById(heats, runningHeat).event_id = HeatById(heats, heatId).event_id
          THEN UNCHANGED heats
          ELSE heats' = updateStatus(heats, heatId, "running")
    /\ Replayed(heatId)
    /\ UNCHANGED <<requests, restarts, events, nRacers, eventLaneCount, eventStatus, settings, rosterCache>>
    /\ UNCHANGED <<harnessVars, timerVars>>

\* the start handler taking over from the heat that runs: it puts that heat
\* back to pending and starts the requested one
startHeatStoppingOther(hs, heatId) ==
    Bound([runningHeat \in {findRunning(hs)} |->
        IF ~HasHeat(hs, heatId) THEN [status |-> 404, heats |-> hs]
        ELSE IF runningHeat # 0 /\ runningHeat # heatId
        THEN [status |-> 200,
              heats |-> updateStatus(updateStatus(hs, runningHeat, "pending"), heatId, "running")]
        ELSE [status |-> 200, heats |-> updateStatus(hs, heatId, "running")]])

\* the start handler on the heats table hs: returns [status, heats], the
\* status of its response and the table after it
startHeat(hs, heatId) ==
    Bound([runningHeat \in {findRunning(hs)} |->
        IF runningHeat # 0 /\ runningHeat # heatId
        THEN [status |-> 409, heats |-> hs]
        ELSE IF ~HasHeat(hs, heatId) THEN [status |-> 404, heats |-> hs]
        ELSE [status |-> 200, heats |-> updateStatus(hs, heatId, "running")]])

\* POST /api/heats/:id/start (409 and 404 change nothing)
StartHeat(heatId) ==
    /\ heats' = startHeat(heats, heatId).heats
    /\ Replayed(heatId)
    /\ UNCHANGED <<requests, restarts, events, nRacers, eventLaneCount, eventStatus, settings, rosterCache>>
    /\ UNCHANGED <<harnessVars, timerVars>>

\* a stop that ends the running heat as a complete request does
StopRaceCompleting ==
    /\ LET runningHeat == findRunning(heats)
       IN IF runningHeat = 0
          THEN UNCHANGED <<heats, rosterCache, eventStatus>>
          ELSE AfterCompletion(updateStatus(heats, runningHeat, "complete"),
                               HeatById(heats, runningHeat).event_id)
    /\ UNCHANGED <<requests, restarts, events, nRacers, eventLaneCount, settings, replays>>
    /\ UNCHANGED <<harnessVars, timerVars>>

\* POST /api/race/stop
StopRace ==
    /\ LET runningHeat == findRunning(heats)
       IN IF runningHeat = 0
          THEN UNCHANGED heats
          ELSE heats' = updateStatus(heats, runningHeat, "pending")
    /\ UNCHANGED <<requests, restarts, events, nRacers, eventLaneCount, eventStatus, settings, rosterCache, replays>>
    /\ UNCHANGED <<harnessVars, timerVars>>

\* POST /api/heats/:id/complete
CompleteHeat(heatId) ==
    /\ HasHeat(heats, heatId)
    /\ Replayed(heatId)
    /\ LET existingHeat == HeatById(heats, heatId)
       IN AfterCompletion(updateStatus(heats, heatId, "complete"), existingHeat.event_id)
    /\ UNCHANGED <<requests, restarts, events, nRacers, eventLaneCount, settings>>
    /\ UNCHANGED <<harnessVars, timerVars>>

\* resultsRepo.createBatch: the heat's results rows, here its first place
createBatch(hs, heatId, winner) ==
    [h \in DOMAIN hs |-> IF hs[h].id = heatId THEN [hs[h] EXCEPT !.winner = winner] ELSE hs[h]]

\* POST /api/heats/:heatId/results
PostResults(heatId, winner) ==
    /\ HasHeat(heats, heatId)
    /\ Replayed(heatId)
    /\ LET heat == HeatById(heats, heatId)
       IN AfterCompletion(updateStatus(createBatch(heats, heatId, winner), heatId, "complete"),
                          heat.event_id)
    /\ UNCHANGED <<requests, restarts, events, nRacers, eventLaneCount, settings>>
    /\ UNCHANGED <<harnessVars, timerVars>>

NoBody == [lane_count |-> <<>>, rounds |-> <<>>, lookahead |-> <<>>]

\* the bodies of generate-heats requests: no field given, or one of them
GenerateBodies ==
    {NoBody}
    \cup {[NoBody EXCEPT !.lane_count = <<l>>] : l \in (0..MaxLanes) \ {EventLanes}}
    \cup {[NoBody EXCEPT !.rounds = <<r>>] : r \in 2..MaxEventRounds}
    \cup {[NoBody EXCEPT !.lookahead = <<2>>]}

Next ==
    \/ \E e \in events, body \in GenerateBodies : GenerateHeats(e, body)
    \/ \E e \in events : DeleteHeats(e)
    \/ \E id \in HeatIds(heats) : StartHeat(id)
    \/ StopRace
    \/ \E id \in HeatIds(heats) : CompleteHeat(id)
    \/ \E id \in HeatIds(heats) : \E w \in HeatRacers(HeatById(heats, id)) : PostResults(id, w)

Spec == Init /\ [][Next]_vars

\* a race day as the rehearsal script drives it: one generate-heats request,
\* then start and results requests; each racer is to run every lane
\* RaceDayRounds times
RaceDayBody == [NoBody EXCEPT !.rounds = <<RaceDayRounds>>]

OpenRaceDay(eventId) ==
    /\ eventStatus[eventId] = "draft"
    /\ GenerateHeats(eventId, RaceDayBody)

NextRaceDay ==
    \/ \E e \in events : OpenRaceDay(e)
    \/ \E id \in HeatIds(heats) : StartHeat(id)
    \/ \E id \in HeatIds(heats) : \E w \in HeatRacers(HeatById(heats, id)) : PostResults(id, w)

SpecRaceDay == Init /\ [][NextRaceDay]_vars

\* two events side by side, each with a small field
InitMulti ==
    /\ InitService({1, 2})
    /\ \A e \in events : nRacers[e] \in 1..MaxMultiRacers

\* the requests of Next, with generate-heats requests that give no field
NextMulti ==
    \/ \E e \in events : GenerateHeats(e, NoBody)
    \/ \E e \in events : DeleteHeats(e)
    \/ \E id \in HeatIds(heats) : StartHeat(id)
    \/ StopRace
    \/ \E id \in HeatIds(heats) : CompleteHeat(id)
    \/ \E id \in HeatIds(heats) : \E w \in HeatRacers(HeatById(heats, id)) : PostResults(id, w)

SpecMulti == InitMulti /\ [][NextMulti]_vars

\* ------------------------------------------------------------ claims on the service
\* the heats of the event's current round
CurrentRoundHeats(e) ==
    LET allHeats == findByEvent(heats, e)
    IN SelectSeq(allHeats, LAMBDA heat : heat.round = getHighestRound(allHeats))

\* C3: for every event, the heats of its current round that are not complete
\* (pending or running) are never more than the event's lookahead
C3_QueueWithinLookahead ==
    \A e \in events :
        InFlightCount(CurrentRoundHeats(e))
            <= getPlanningSettings(settings, e, eventLaneCount[e]).lookahead

RunningHeats == {h \in DOMAIN heats : heats[h].status = "running"}

\* C5: across all events, at most one heat is running
C5_OneRunningHeat == Cardinality(RunningHeats) <= 1

\* C5 witness: a heat of one event is running while the other event has a
\* pending heat, and a heat of the other event has been completed before
C5_Witness ==
    \E r \in RunningHeats :
        /\ \E h \in DOMAIN heats :
              heats[h].event_id # heats[r].event_id /\ heats[h].status = "pending"
        /\ \E h \in DOMAIN heats :
              heats[h].event_id # heats[r].event_id /\ heats[h].status = "complete"

\* the rounds of which the step creates heats for event e: a round above 1
\* gets heats only from topUpHeatQueue, under ids no heat carried before
RoundsCreated(e) ==
    {heats'[h].round : h \in {g \in DOMAIN heats' :
                                 /\ heats'[g].event_id = e
                                 /\ heats'[g].round > 1
                                 /\ heats'[g].id \notin HeatIds(heats)}}

\* the rounds whose roster the step writes for event e by selecting survivors
RoundsOpened(e) ==
    {row[2] : row \in {c \in rosterCache' \ rosterCache : c[1] = e /\ c[2] > 1}}

\* the roster of a round of event e as the round_racer_rosters table has it
RosterOf(cache, e, roundNumber) ==
    getRoundRacersFromCache(cache, e, roundNumber, getPlannerRacers(e))

RoundHeats(hs, e, roundNumber) ==
    SelectSeq(findByEvent(hs, e), LAMBDA heat : heat.round = roundNumber)

\* what planNextHeat returns for a round of event e on the given tables
PlanForRound(hs, cache, sts, e, roundNumber) ==
    LET st == getPlanningSettings(sts, e, eventLaneCount[e])
    IN planNextHeat(RosterOf(cache, e, roundNumber), st.laneCount, st.rounds,
                    toPlannerStandings(getEventStandings(hs, e)),
                    toPlannerHeats(RoundHeats(hs, e, roundNumber)))

\* C6: a step creates heats of round r+1, or selects the survivors of round
\* r, only when every heat of round r is complete and planNextHeat returns
\* none for round r's roster and heats (the tables as the step leaves them
\* are the tables topUpHeatQueue worked on, but for what it added)
C6_NextRoundOnlyAfterRound ==
    [][\A e \in events : \A q \in RoundsCreated(e) \cup RoundsOpened(e) :
          /\ InFlightCount(RoundHeats(heats', e, q - 1)) = 0
          /\ PlanForRound(heats', rosterCache', settings', e, q - 1) = NullHeat]_vars

\* the step marks event e complete
MarkedComplete(e) == eventStatus[e] # "complete" /\ eventStatus'[e] = "complete"

\* the complete heats of a round in which the racer ran the lane
RoundRuns(hs, e, roundNumber, racerId, lane) ==
    Cardinality({h \in DOMAIN hs :
                    /\ hs[h].event_id = e
                    /\ hs[h].round = roundNumber
                    /\ hs[h].status = "complete"
                    /\ \E k \in DOMAIN hs[h].lanes :
                          /\ hs[h].lanes[k].racer_id = racerId
                          /\ hs[h].lanes[k].lane_number = lane})

\* every racer of the round's roster has run every lane at least `rounds`
\* times in the heats of that round
RoundCovered(hs, cache, sts, e, roundNumber) ==
    LET st == getPlanningSettings(sts, e, eventLaneCount[e])
        roster == RosterOf(cache, e, roundNumber)
    IN \A i \in DOMAIN roster, lane \in 1..st.laneCount :
           RoundRuns(hs, e, roundNumber, roster[i].id, lane) >= st.rounds

\* C7: when a step opens round r+1 (selects the survivors of round r) and
\* when a step marks the event complete, every racer of the closing round's
\* roster has run every lane at least `rounds` times, counting only the
\* heats of the closing round
C7_ClosingRoundCovered ==
    [][\A e \in events :
          /\ \A q \in RoundsOpened(e) :
                RoundCovered(heats', rosterCache', settings', e, q - 1)
          /\ MarkedComplete(e) =>
                RoundCovered(heats', rosterCache', settings', e,
                             getHighestRound(findByEvent(heats', e)))]_vars

\* C7 witness: an event of three racers on two lanes is complete after a
\* cut, its second round run by the survivors
C7_Witness ==
    \E e \in events :
        /\ eventStatus[e] = "complete"
        /\ nRacers[e] = 3
        /\ settings[e].lane_count = 2
        /\ getHighestRound(findByEvent(heats, e)) = 2
        /\ InFlightCount(findByEvent(heats, e)) = 0

\* the rounds of event e that have a roster
RosterRounds(e) == {row[2] : row \in {c \in rosterCache : c[1] = e}}

\* C8: the roster of the k-th round opened has as many racers as the k-th
\* element of buildEliminationPlan(N); no round is opened, and no heat
\* created, beyond the plan's last element; an event of N >= 3 racers is
\* complete in the plan's last round, whose roster has exactly 2 racers
C8_RostersFollowPlan ==
    \A e \in events :
        LET plan == buildEliminationPlan(nRacers[e])
            eventHeats == findByEvent(heats, e)
        IN /\ \A k \in RosterRounds(e) :
                 /\ k <= Len(plan)
                 /\ Len(RosterOf(rosterCache, e, k)) = plan[k]
           /\ \A h \in DOMAIN eventHeats : eventHeats[h].round <= Len(plan)
           /\ (nRacers[e] >= 3 /\ eventStatus[e] = "complete" /\ Len(eventHeats) > 0) =>
                 /\ getHighestRound(eventHeats) = Len(plan)
                 /\ Len(RosterOf(rosterCache, e, Len(plan))) = 2

\* C8 witness: the second round of an event of three racers has its roster
\* and its heats
C8_Witness ==
    \E e \in events :
        /\ nRacers[e] = 3
        /\ 2 \in RosterRounds(e)
        /\ \E h \in DOMAIN heats : heats[h].event_id = e /\ heats[h].round = 2

\* C9: a step marks an event complete only when its current (highest) round
\* has at least one heat, none of them pending or running, the round's
\* roster has at most 2 racers, and planNextHeat returns none for that
\* roster and those heats
C9_CompleteOnlyWhenDone ==
    [][\A e \in events :
          MarkedComplete(e) =>
              LET currentRound == getHighestRound(findByEvent(heats', e))
                  roundHeats == RoundHeats(heats', e, currentRound)
              IN /\ Len(roundHeats) >= 1
                 /\ InFlightCount(roundHeats) = 0
                 /\ Len(RosterOf(rosterCache', e, currentRound)) <= 2
                 /\ PlanForRound(heats', rosterCache', settings', e, currentRound) = NullHeat]_vars

\* C9 witness: an event of two racers is complete, every heat of it with results
C9_Witness ==
    \E e \in events :
        /\ eventStatus[e] = "complete"
        /\ nRacers[e] = 2
        /\ Len(findByEvent(heats, e)) >= 2
        /\ \A h \in DOMAIN heats : heats[h].event_id = e => heats[h].winner # NoResult

\* after generate-heats with racers and lanes, an event with no heat in
\* flight is complete
NoneInFlightMeansComplete ==
    \A e \in events :
        (/\ settings[e] # NoSettings
         /\ settings[e].lane_count >= 1
         /\ nRacers[e] >= 1
         /\ InFlightCount(findByEvent(heats, e)) = 0) => eventStatus[e] = "complete"

\* C10: after generate-heats with racers and lanes, when a step marks the
\* event complete no heat of the event is pending or running, and in no
\* state is the event not complete with no heat of it in flight
C10_CompleteWithNoneInFlight ==
    /\ [][\A e \in events :
             MarkedComplete(e) => InFlightCount(findByEvent(heats', e)) = 0]_vars
    /\ []NoneInFlightMeansComplete

\* ------------------------------------------------------------ elimination harness
MaxField == 4

\* car numbers as registration takes them, any non-empty string: "2", "10",
\* "1a", then the racer's position
MixedCarNumber(i) ==
    CASE i = 1 -> <<2>>
      [] i = 2 -> <<1, 0>>
      [] i = 3 -> <<1, 10>>
      [] OTHER -> String(i)

MixedRoster(n) == [i \in 1..n |-> [id |-> i, car_number |-> MixedCarNumber(i)]]

\* the standing a racer can have: wins, losses, heats run and average time
StandingProfiles ==
    { [wins |-> 1, losses |-> 0, heats_run |-> 1, avg_time_ms |-> 5],
      [wins |-> 1, losses |-> 0, heats_run |-> 1, avg_time_ms |-> NullTime],
      [wins |-> 1, losses |-> 0, heats_run |-> 2, avg_time_ms |-> 5],
      [wins |-> 0, losses |-> 1, heats_run |-> 1, avg_time_ms |-> 4],
      [wins |-> 1, losses |-> 1, heats_run |-> 2, avg_time_ms |-> 4] }

\* standings lists for a field of n racers: each racer has one of the
\* profiles, or no row at all
EliminationStandings(n) ==
    {LET rows == [i \in 1..n |->
                     IF f[i] = <<>> THEN <<>>
                     ELSE [racer_id |-> i, wins |-> f[i][1].wins, losses |-> f[i][1].losses,
                           heats_run |-> f[i][1].heats_run,
                           avg_time_ms |-> f[i][1].avg_time_ms]]
     IN SelectSeq(rows, LAMBDA row : row # <<>>)
     : f \in [1..n -> {<<>>} \cup {<<p>> : p \in StandingProfiles}]}

\* the racers the comparator puts before the i-th of the list in a stable sort
Ahead(activeRacers, standings, i) ==
    {j \in DOMAIN activeRacers :
        \E c \in {SurvivorCmp(activeRacers[j], activeRacers[i], standings)} :
            c < 0 \/ (c = 0 /\ j < i)}

\* the comparator orders the list: every position of the sorted list has its racer
ComparatorOrders(activeRacers, standings) ==
    \A k \in 1..Len(activeRacers) :
        \E i \in DOMAIN activeRacers : Cardinality(Ahead(activeRacers, standings, i)) = k - 1

Orderings(list) ==
    {[k \in DOMAIN list |-> list[p[k]]] :
        p \in {q \in [DOMAIN list -> DOMAIN list] :
                  \A i, j \in DOMAIN list : i # j => q[i] # q[j]}}

\* what [...activeRacers].sort(comparator) can return: the stable sort, and
\* with a comparator that is no order whatever order the engine's algorithm leaves
SortOutcomes(activeRacers, standings) ==
    IF ComparatorOrders(activeRacers, standings)
    THEN {RankedRacers(activeRacers, standings)}
    ELSE Orderings(activeRacers)

\* what selectSurvivorsForNextRound can return
selectSurvivorsOutcomes(activeRacers, standings) ==
    IF Len(activeRacers) <= 2 THEN {activeRacers}
    ELSE {SubSeq(rankedRacers, 1, getNextFieldSize(Len(activeRacers))) :
             rankedRacers \in SortOutcomes(activeRacers, standings)}

InitElimination ==
    /\ \E n \in 0..MaxField :
          /\ pRacers \in {Roster(n, FALSE), Roster(n, TRUE), MixedRoster(n)}
          /\ pStandings \in EliminationStandings(n)
    /\ pLaneCount = 0
    /\ pRounds = 1
    /\ pHistory = <<>>
    /\ pArb = 0
    /\ calls = <<>>
    /\ NoTimer
    /\ NoElimination
    /\ NoService

\* a round closes: the field is cut to its survivors
Eliminate ==
    /\ pRacers' \in selectSurvivorsOutcomes(pRacers, pStandings)
    /\ UNCHANGED <<pLaneCount, pRounds, pStandings, pHistory, pArb>>
    /\ UNCHANGED elimVars
    /\ UNCHANGED callVars
    /\ UNCHANGED <<serviceVars, timerVars>>

SpecElimination == InitElimination /\ [][Eliminate]_vars

\* C11: a cut of a field of more than 2 racers leaves exactly
\* getNextFieldSize(|field|) distinct racers of the field, and no racer cut
\* ranks ahead of a survivor under the order wins descending, losses
\* ascending, average time ascending (missing last), heats run descending,
\* car number
C11_SurvivorsRankFirst ==
    [][Len(pRacers) > 2 =>
          /\ Len(pRacers') = getNextFieldSize(Len(pRacers))
          /\ \A i, j \in DOMAIN pRacers' : i # j => pRacers'[i].id # pRacers'[j].id
          /\ Range(pRacers') \subseteq Range(pRacers)
          /\ \A survivor \in Range(pRacers') :
                \A eliminated \in Range(pRacers) \ Range(pRacers') :
                    SurvivorCmp(eliminated, survivor, pStandings) >= 0]_vars

\* ------------------------------------------------------------ field sizes
MaxFieldSize == 33

InitField ==
    /\ fieldSize \in -1..MaxFieldSize
    /\ fieldPlan = <<>>
    /\ pRacers = <<>>
    /\ pStandings = <<>>
    /\ pLaneCount = 0
    /\ pRounds = 1
    /\ pHistory = <<>>
    /\ pArb = 0
    /\ calls = <<>>
    /\ NoTimer
    /\ NoService

\* the field is cut once
NextField ==
    /\ fieldSize' = getNextFieldSize(fieldSize)
    /\ UNCHANGED <<pRacers, pLaneCount, pRounds, pStandings, pHistory, pArb, calls, fieldPlan>>
    /\ UNCHANGED <<serviceVars, timerVars>>

\* the plan of the whole elimination is built for the field
BuildPlan ==
    /\ fieldPlan' = [startingFieldSize |-> fieldSize, plan |-> buildEliminationPlan(fieldSize)]
    /\ UNCHANGED <<pRacers, pLaneCount, pRounds, pStandings, pHistory, pArb, calls, fieldSize>>
    /\ UNCHANGED <<serviceVars, timerVars>>

SpecField == InitField /\ [][NextField \/ BuildPlan]_vars

\* C12: the plan built for n is empty when n <= 0; otherwise it starts with
\* n, each later element is the cut of the element before it and is smaller
\* than it, and for n >= 2 the plan ends with 2; 16 gives 16, 8, 4, 2, and
\* 9 gives 9, 5, 3, 2, and 2 gives 2
C12_PlanHalvesToTwo ==
    fieldPlan # <<>> =>
        LET n == fieldPlan.startingFieldSize
            built == fieldPlan.plan
        IN /\ n <= 0 => built = <<>>
           /\ n >= 1 =>
                 /\ Len(built) >= 1
                 /\ built[1] = n
                 /\ \A k \in 2..Len(built) :
                       /\ built[k] = getNextFieldSize(built[k - 1])
                       /\ built[k] < built[k - 1]
           /\ n >= 2 => built[Len(built)] = 2
           /\ n = 16 => built = <<16, 8, 4, 2>>
           /\ n = 9 => built = <<9, 5, 3, 2>>
           /\ n = 2 => built = <<2>>

\* C12 witness: the plan of a field of 16 has been built, and has four rounds
C12_Witness ==
    /\ fieldPlan # <<>>
    /\ fieldPlan.startingFieldSize = 16
    /\ Len(fieldPlan.plan) = 4

\* C13: the cut of n is max(1, n) for n <= 2 and max(2, ceil(n / 2)) for
\* n > 2: at least 2 for every n >= 2, and smaller than n for every n >= 3
C13_CutKeepsTwo ==
    LET n == fieldSize
        cut == getNextFieldSize(fieldSize)
    IN /\ n <= 0 => cut = 1
       /\ n \in 1..2 => cut = n
       /\ n > 2 => /\ cut >= 2
                   /\ 2 * cut \in {n, n + 1}
       /\ n >= 2 => cut >= 2
       /\ n >= 3 => cut < n
       /\ n = 7 => cut = 4
       /\ n = 3 => cut = 2

\* C13 witness: a field of 7 has been cut to 4, and 4 is cut to 2
C13_Witness ==
    /\ fieldPlan # <<>>
    /\ fieldPlan.startingFieldSize = 7
    /\ fieldSize = 4
    /\ getNextFieldSize(fieldSize) = 2

\* ------------------------------------------------------------ planner, misuse
\* C14: with a lane count of zero or below, or an empty roster, planNextHeat
\* returns none and planHeatQueue an empty list, whatever the history and
\* the standings hold
C14_NothingToPlan ==
    (pLaneCount <= 0 \/ Len(pRacers) = 0) =>
        /\ NextPlanned = NullHeat
        /\ \A lookahead \in LookaheadInputs : PlannedQueue(lookahead) = <<>>

\* C14 witness: a roster, standings and a history with a heat in it are
\* given with a negative lane count
C14_Witness ==
    /\ pLaneCount < 0
    /\ Len(pRacers) > 0
    /\ pStandings # <<>>
    /\ Len(pHistory) > 0
    /\ NextPlanned = NullHeat

\* C15: when every racer of the roster occupies every lane 1..laneCount in
\* at least `rounds` heats of the history, planNextHeat returns none; so it
\* does for a roster of two racers that have both completed their coverage
C15_CoveredMeansNone ==
    EveryLaneAtLeastRounds => NextPlanned = NullHeat

\* C15 witness: a roster of two racers has run both of two lanes `rounds`
\* times each, with rounds above one, and the planner returns none
C15_Witness ==
    /\ Len(pRacers) = 2
    /\ pLaneCount = 2
    /\ pRounds > 1
    /\ Len(pHistory) >= 2 * pRounds
    /\ EveryLaneAtLeastRounds
    /\ NextPlanned = NullHeat

\* ------------------------------------------------------------ overlapping notifications
MaxRequests == 2      \* results requests whose body is being read at one time

\* POST /api/heats/:heatId/results up to `await req.json()`: the heat is
\* looked up, then the handler yields until the body has arrived
ReceiveResults(heatId) ==
    /\ HasHeat(heats, heatId)
    /\ Len(requests) < MaxRequests
    /\ \E heat \in {HeatById(heats, heatId)},
          before \in {SelectSeq(requests, LAMBDA req : req.heatId <= heatId)},
          after \in {SelectSeq(requests, LAMBDA req : req.heatId > heatId)} :
          requests' = before \o <<[heatId |-> heatId, event_id |-> heat.event_id]>> \o after
    /\ UNCHANGED <<restarts, events, nRacers, eventLaneCount, eventStatus, heats, settings, rosterCache,
                   replays>>
    /\ UNCHANGED <<harnessVars, timerVars>>

\* the same handler from the arrival of a body with results to its response:
\* one synchronous run, on the heats table as it is now
FinishResults(i, winner) ==
    /\ i \in DOMAIN requests
    /\ \E req \in {requests[i]} :
          AfterCompletion(updateStatus(createBatch(heats, req.heatId, winner),
                                       req.heatId, "complete"),
                          req.event_id)
    /\ requests' = [k \in 1..(Len(requests) - 1) |->
                       IF k < i THEN requests[k] ELSE requests[k + 1]]
    /\ UNCHANGED <<restarts, events, nRacers, eventLaneCount, settings, replays>>
    /\ UNCHANGED <<harnessVars, timerVars>>

\* a race day on which results requests overlap each other and complete
\* requests; one heat may be started again after it was completed
NextOverlap ==
    \/ \E e \in events : OpenRaceDay(e)
    \/ \E id \in HeatIds(heats) : StartHeat(id)
    \/ \E id \in HeatIds(heats) : ReceiveResults(id)
    \/ \E i \in DOMAIN requests :
          \E w \in HeatRacers(HeatById(heats, requests[i].heatId)) : FinishResults(i, w)

\* the largest field: the overlap needs a round of more heats than the lookahead
InitOverlap ==
    /\ Init
    /\ \A e \in events : nRacers[e] = MaxEventRacers

SpecOverlap == InitOverlap /\ [][NextOverlap]_vars

\* results requests of event e whose body is being read
RequestsOf(e) == {i \in DOMAIN requests : requests[i].event_id = e}

\* this step is the recompute-and-append of a notification for event e that
\* runs while another notification for e is in progress: a results request
\* finishes while a second one is waiting, or a heat of e is completed by a
\* complete request while a results request is waiting
OverlappingNotification(e) ==
    \/ /\ Len(requests') < Len(requests)
       /\ Cardinality(RequestsOf(e)) >= 2
    \/ /\ requests' = requests
       /\ RequestsOf(e) # {}
       /\ \E h \in DOMAIN heats :
             /\ heats[h].event_id = e
             /\ heats[h].status # "complete"
             /\ heats'[h].status = "complete"

\* no two heats of event e carry the same heat number
DistinctHeatNumbers(hs, e) ==
    \A h, k \in DOMAIN hs :
        (h # k /\ hs[h].event_id = e /\ hs[k].event_id = e)
            => hs[h].heat_number # hs[k].heat_number

\* the heats of event e's current round that are not complete are not more
\* than the lookahead of its settings
WithinLookahead(hs, sts, e) ==
    LET allHeats == findByEvent(hs, e)
        currentRound == getHighestRound(allHeats)
    IN InFlightCount(SelectSeq(allHeats, LAMBDA heat : heat.round = currentRound))
          <= getPlanningSettings(sts, e, eventLaneCount[e]).lookahead

\* C16: after the recompute-and-append step of a heat-completed notification
\* that overlaps another notification for the same event, no two heats of
\* the event carry the same heat number and the heats of the current round
\* that are not complete are not more than the lookahead
C16_OverlapLeavesQueueSound ==
    [][\A e \in events :
          OverlappingNotification(e) =>
              /\ DistinctHeatNumbers(heats', e)
              /\ WithinLookahead(heats', settings', e)]_vars

\* the heat-number half of C16 alone
OverlapKeepsNumbersDistinct ==
    [][\A e \in events : OverlappingNotification(e) => DistinctHeatNumbers(heats', e)]_vars

\* ------------------------------------------------------------ planner calls
MaxCalls == 2         \* planner calls a caller makes

\* the planned heats as planHeatQueue pushes them onto its working history
AsPending(plannedHeats) ==
    [k \in DOMAIN plannedHeats |-> [status |-> "pending", lanes |-> plannedHeats[k].lanes]]

\* planningHeats being the caller's array itself, not a copy of it
HistorySharedWithQueue(existingHeats, plannedHeats) ==
    existingHeats \o AsPending(plannedHeats)

\* the caller's heat history after planHeatQueue returned: the loop pushes
\* onto planningHeats, which is a copy (`[...input.existingHeats]`)
HistoryAfterQueue(existingHeats, plannedHeats) ==
    existingHeats

\* the record of a call on the caller's arrays as they are now
CallOf(fn, lookahead, result) ==
    [fn |-> fn, racers |-> pRacers, laneCount |-> pLaneCount, rounds |-> pRounds,
     standings |-> pStandings, existingHeats |-> pHistory, lookahead |-> lookahead,
     result |-> result]

\* a caller calls planNextHeat: the roster is filtered into a new array and
\* the history is only read
CallPlanNextHeat ==
    /\ Len(calls) < MaxCalls
    /\ \E nextHeat \in {NextPlanned} :
          calls' = Append(calls, CallOf("planNextHeat", 0, nextHeat))
    /\ UNCHANGED <<pRacers, pLaneCount, pRounds, pStandings, pHistory, pArb>>
    /\ UNCHANGED elimVars
    /\ UNCHANGED <<serviceVars, timerVars>>

\* a caller calls planHeatQueue
CallPlanHeatQueue(lookahead) ==
    /\ Len(calls) < MaxCalls
    /\ \E plannedHeats \in {PlannedQueue(lookahead)} :
          /\ calls' = Append(calls, CallOf("planHeatQueue", lookahead, plannedHeats))
          /\ pHistory' = HistoryAfterQueue(pHistory, plannedHeats)
    /\ UNCHANGED <<pRacers, pLaneCount, pRounds, pStandings, pArb>>
    /\ UNCHANGED elimVars
    /\ UNCHANGED <<serviceVars, timerVars>>

\* a caller that plans, persists planned heats and plans again
NextCalls ==
    \/ AppendPlanned("pending")
    \/ AppendPlanned("complete")
    \/ CallPlanNextHeat
    \/ \E lookahead \in LookaheadInputs : CallPlanHeatQueue(lookahead)

SpecCalls == InitPlan /\ [][NextCalls]_vars

\* two calls of the same function with equal roster, lane count, rounds,
\* standings, heat history and lookahead
SameInput(a, b) ==
    /\ a.fn = b.fn
    /\ a.racers = b.racers
    /\ a.laneCount = b.laneCount
    /\ a.rounds = b.rounds
    /\ a.standings = b.standings
    /\ a.existingHeats = b.existingHeats
    /\ a.lookahead = b.lookahead

RecordedAsPending(queue, n) ==
    pHistory \o [k \in 1..n |-> [status |-> "pending", lanes |-> queue[k].lanes]]

\* every heat of the queue is the heat planNextHeat returns once the heats
\* before it are recorded as pending
HeatByHeat(queue) ==
    \A i \in DOMAIN queue :
        queue[i] = planNextHeat(pRacers, pLaneCount, pRounds, pStandings,
                                RecordedAsPending(queue, i - 1))

\* the queue ends where heats in flight plus returned heats reach the limit,
\* not beyond it, or where the next call returns none
StopsAtLimitOrNone(queue, limit) ==
    LET inFlight == InFlightCount(pHistory)
    IN /\ Len(queue) > 0 => inFlight + Len(queue) <= limit
       /\ \/ inFlight + Len(queue) >= limit
          \/ planNextHeat(pRacers, pLaneCount, pRounds, pStandings,
                          RecordedAsPending(queue, Len(queue))) = NullHeat

\* C18: the i-th heat planHeatQueue returns is the heat planNextHeat returns
\* for the history followed by the first i-1 returned heats as pending, and
\* the batch stops at the first call that returns none or when heats in
\* flight plus returned heats reach the lookahead
C18_QueueOfNextHeats ==
    \A lookahead \in LookaheadInputs :
        /\ HeatByHeat(PlannedQueue(lookahead))
        /\ StopsAtLimitOrNone(PlannedQueue(lookahead), lookahead)

\* C18 amended: the same, with the batch stopping when heats in flight plus
\* returned heats reach the effective lookahead max(1, lookahead)
C18_QueueOfNextHeatsEffective ==
    \A lookahead \in LookaheadInputs :
        /\ HeatByHeat(PlannedQueue(lookahead))
        /\ StopsAtLimitOrNone(PlannedQueue(lookahead), Max(1, lookahead))

\* C18 witness: on a history of complete heats, lookahead 2 yields two
\* different heats that fill it, and lookahead 3 yields the same two heats
\* and ends because the next call returns none
C18_Witness ==
    /\ Len(pHistory) > 0
    /\ InFlightCount(pHistory) = 0
    /\ Len(PlannedQueue(2)) = 2
    /\ PlannedQueue(2)[1] # PlannedQueue(2)[2]
    /\ Len(PlannedQueue(3)) = 2

\* ------------------------------------------------------------ a field cut twice
LargeField == 5       \* inspected racers of an event whose second round has three

\* a generate-heats request for a queue of two heats
ShortQueueBody == [NoBody EXCEPT !.lookahead = <<2>>]

\* empty database with one event of LargeField inspected racers
InitLargeField ==
    /\ events = {1}
    /\ nRacers = [e \in {1} |-> LargeField]
    /\ eventLaneCount = [e \in {1} |-> EventLanes]
    /\ eventStatus = [e \in {1} |-> "draft"]
    /\ heats = <<>>
    /\ settings = [e \in {1} |-> NoSettings]
    /\ rosterCache = {}
    /\ replays = 0
    /\ requests = <<>>
    /\ restarts = 0
    /\ pRacers = <<>>
    /\ pLaneCount = 0
    /\ pRounds = 1
    /\ pStandings = <<>>
    /\ pHistory = <<>>
    /\ pArb = 0
    /\ calls = <<>>
    /\ NoTimer
    /\ NoElimination

OpenLargeField(eventId) ==
    /\ eventStatus[eventId] = "draft"
    /\ GenerateHeats(eventId, ShortQueueBody)

\* the race day of the large field: heats are started and their results
\* posted, in any order
NextLargeField ==
    \/ \E e \in events : OpenLargeField(e)
    \/ \E id \in HeatIds(heats) : StartHeat(id)
    \/ \E id \in HeatIds(heats) : \E w \in HeatRacers(HeatById(heats, id)) : PostResults(id, w)

SpecLargeField == InitLargeField /\ [][NextLargeField]_vars

\* the ids of the roster a planning call for round roundNumber of event e
\* gets from getRoundRacers on the given tables
RosterUsed(hs, cache, e, roundNumber) ==
    IdsOf(getRoundRacers(cache, e, getPlannerRacers(e), RoundHeats(hs, e, roundNumber),
                         roundNumber).racers)

\* the ids of the survivors of a round on the given tables
SurvivorsOf(hs, cache, e, roundNumber) ==
    IdsOf(selectSurvivorsForNextRound(
              getRoundRacers(cache, e, getPlannerRacers(e), RoundHeats(hs, e, roundNumber),
                             roundNumber).racers,
              getEventStandings(hs, e)))

\* the racers on the lanes of the heats of a round
RacersInHeats(hs, e, roundNumber) ==
    UNION {HeatRacers(hs[h]) : h \in {g \in DOMAIN hs : hs[g].event_id = e
                                                          /\ hs[g].round = roundNumber}}

\* C19: the roster planning calls of a round r > 1 get is the set of
\* survivors chosen by the step that opened round r, and it stays that set
\* for as long as round r is the current round, whichever of the survivors
\* are on the lanes of the round's heats so far
C19_RosterPinnedToSurvivors ==
    [][\A e \in events :
          /\ \A q \in RoundsOpened(e) :
                RosterUsed(heats', rosterCache', e, q) = SurvivorsOf(heats', rosterCache', e, q - 1)
          /\ \E r \in {getHighestRound(findByEvent(heats, e))} :
                (r > 1 /\ getHighestRound(findByEvent(heats', e)) = r) =>
                    RosterUsed(heats', rosterCache', e, r) = RosterUsed(heats, rosterCache, e, r)]_vars

\* C19 witness: round 2 is current with a roster of three survivors, one of
\* its heats is running, and one survivor is on no heat of the round yet
C19_Witness ==
    \E e \in events :
        /\ getHighestRound(findByEvent(heats, e)) = 2
        /\ Cardinality(RosterUsed(heats, rosterCache, e, 2)) = 3
        /\ RacersInHeats(heats, e, 2) # RosterUsed(heats, rosterCache, e, 2)
        /\ RacersInHeats(heats, e, 2) \subseteq RosterUsed(heats, rosterCache, e, 2)
        /\ \E h \in DOMAIN heats : heats[h].round = 2 /\ heats[h].status = "running"

\* ------------------------------------------------------------ heat numbers
\* the heats new of an event are the heats old of the step's start, in
\* creation order, followed by the heats the step created
Extends(new, old) ==
    /\ Len(new) >= Len(old)
    /\ \A k \in DOMAIN old :
          /\ new[k].id = old[k].id
          /\ new[k].heat_number = old[k].heat_number
          /\ new[k].round = old[k].round
          /\ new[k].lanes = old[k].lanes

\* C20: the heats of an event carry pairwise distinct heat numbers; the
\* heats a step creates are numbered consecutively from one more than the
\* highest heat number the event had (from 1 when the step deleted the
\* event's heats first); every heat of a later round has a higher number
\* than every heat of an earlier round
C20_HeatNumbersContinue ==
    [][\A e \in events :
          \E old \in {findByEvent(heats, e)}, new \in {findByEvent(heats', e)} :
          \E base \in {IF Extends(new, old) THEN Len(old) ELSE 0} :
             /\ \A k \in (base + 1)..Len(new) :
                   new[k].heat_number = MaxHeatNumberOf(SubSeq(new, 1, base)) + (k - base)
             /\ DistinctHeatNumbers(heats', e)
             /\ \A h, k \in DOMAIN new :
                   new[h].round < new[k].round => new[h].heat_number < new[k].heat_number]_vars

\* C20 witness: an event has heats of two rounds from at least three
\* batches, and the last heat of round 2 carries the number of heats created
C20_Witness ==
    \E e \in events :
        LET eventHeats == findByEvent(heats, e)
        IN /\ Len(eventHeats) >= 5
           /\ eventHeats[1].round = 1
           /\ eventHeats[Len(eventHeats)].round = 2
           /\ eventHeats[Len(eventHeats)].heat_number = Len(eventHeats)
           /\ settings[e].lookahead = 2

\* ------------------------------------------------------------ performance clusters
ClusterField == 8     \* createRacers(8)
ClusterLanes == 4     \* laneCount: 4

\* the racers of top have won 4 of 5 heats, the others 1 of 5
ClusterStandings(top) ==
    [i \in 1..ClusterField |->
        IF i \in top
        THEN [racer_id |-> i, wins |-> 4, losses |-> 1, heats_run |-> 5]
        ELSE [racer_id |-> i, wins |-> 1, losses |-> 4, heats_run |-> 5]]

\* eight racers, any four of them the winning cluster, four lanes, no heat yet
InitClusters ==
    /\ \E top \in {t \in SUBSET (1..ClusterField) : 2 * Cardinality(t) = ClusterField},
          descending \in BOOLEAN :
          /\ pRacers = Roster(ClusterField, descending)
          /\ pStandings = ClusterStandings(top)
    /\ pLaneCount = ClusterLanes
    /\ pRounds = 1
    /\ pHistory = <<>>
    /\ pArb = 0
    /\ calls = <<>>
    /\ NoTimer
    /\ NoElimination
    /\ NoService

SpecClusters == InitClusters /\ [][DriveStep]_vars

\* the racer of the roster that chooseParticipants takes as its seed
SeedRacer ==
    pRacers[SeedIndex(pRacers,
                      buildPlanningState(pRacers, pLaneCount, pRounds, <<>>),
                      pStandings)]

\* the racers whose standing has as many wins as the given racer's
ClusterOf(racerId) ==
    {i \in 1..ClusterField :
        StandingOf(i, pStandings).wins = StandingOf(racerId, pStandings).wins}

\* C21: for 8 racers in two clusters of four (4 wins and 1 loss, 1 win and
\* 4 losses), 4 lanes and an empty history, planNextHeat returns a heat
\* and at least 3 of its racers are of the cluster of its seed
C21_HeatLeansToSeedCluster ==
    pHistory = <<>> =>
        /\ NextPlanned # NullHeat
        /\ Cardinality(RacerIdsOf(NextPlanned.lanes) \cap ClusterOf(SeedRacer.id)) >= 3

\* C21 witness: the winning cluster is not the first four racers of the
\* roster, and the first heat seats the seed with three racers of its
\* cluster, the last racer of the roster among them
C21_Witness ==
    /\ pHistory = <<>>
    /\ Len(pRacers) = ClusterField
    /\ 1 \notin ClusterOf(SeedRacer.id)
    /\ ClusterField \in ClusterOf(SeedRacer.id)
    /\ SeedRacer.id \in RacerIdsOf(NextPlanned.lanes)
    /\ ClusterField \in RacerIdsOf(NextPlanned.lanes)
    /\ Len(NextPlanned.lanes) = ClusterLanes

\* ------------------------------------------------------------ a field of two
\* C22: a field of at most 2 active racers survives whole and in its order,
\* whatever the standings, and a second cut of the result changes nothing
C22_SmallFieldUnchanged ==
    Len(pRacers) <= 2 =>
        /\ selectSurvivorsForNextRound(pRacers, pStandings) = pRacers
        /\ selectSurvivorsOutcomes(pRacers, pStandings) = {pRacers}
        /\ selectSurvivorsForNextRound(selectSurvivorsForNextRound(pRacers, pStandings),
                                       pStandings)
              = selectSurvivorsForNextRound(pRacers, pStandings)

\* C22 witness: a field of two racers with standings, which the ranking
\* would put in the other order, is returned as it is
C22_Witness ==
    /\ Len(pRacers) = 2
    /\ pStandings # <<>>
    /\ RankedRacers(pRacers, pStandings) # pRacers
    /\ selectSurvivorsForNextRound(pRacers, pStandings) = pRacers

\* ------------------------------------------------------------ restart
MaxRestarts == 1      \* restarts of the server process

\* GET /api/race/active, but for elapsedMs; heatId 0 is null
getActiveHeatStatus(hs) ==
    LET runningHeat == findRunning(hs)
    IN IF runningHeat = 0 THEN [heatId |-> 0, running |-> FALSE]
       ELSE [heatId |-> runningHeat, running |-> TRUE]

\* planning settings held in a Map of the process
SettingsOfProcess(sts) == [e \in DOMAIN sts |-> NoSettings]

\* the planning settings a new process finds: the rows of the
\* event_planning_settings table
SettingsAcrossRestart(sts) == sts

\* the round rosters a new process finds: the rows of round_racer_rosters
RostersAcrossRestart(cache) == cache

\* the heats a new process finds: the rows of the heats table; the
\* migrations of umzug.up() are applied already
HeatsAcrossRestart(hs) == hs

\* the server process is stopped and started again: handlers waiting for a
\* request body are gone, the tables are read from the database file
Restart ==
    /\ restarts < MaxRestarts
    /\ restarts' = restarts + 1
    /\ requests' = <<>>
    /\ heats' = HeatsAcrossRestart(heats)
    /\ settings' = SettingsAcrossRestart(settings)
    /\ rosterCache' = RostersAcrossRestart(rosterCache)
    /\ UNCHANGED <<events, nRacers, eventLaneCount, eventStatus, replays>>
    /\ UNCHANGED <<harnessVars, timerVars>>

\* the race-day rehearsal with its restart check
NextRestart ==
    \/ \E e \in events : OpenRaceDay(e)
    \/ \E id \in HeatIds(heats) : StartHeat(id)
    \/ \E id \in HeatIds(heats) : \E w \in HeatRacers(HeatById(heats, id)) : PostResults(id, w)
    \/ Restart

SpecRestart == Init /\ [][NextRestart]_vars

LookaheadValues == 0..(MaxLookahead + 1)

LookaheadBodies ==
    {NoBody} \cup {[NoBody EXCEPT !.lookahead = <<v>>] : v \in LookaheadValues}

\* heats are generated with any lookahead, started, completed, deleted and
\* generated again
NextLookahead ==
    \/ \E e \in events, body \in LookaheadBodies : GenerateHeats(e, body)
    \/ \E e \in events : DeleteHeats(e)
    \/ \E id \in HeatIds(heats) : StartHeat(id)
    \/ \E id \in HeatIds(heats) : CompleteHeat(id)

SpecLookahead == Init /\ [][NextLookahead]_vars

\* C24: clampLookahead returns 2 for 2 and 3 for every other value; the
\* lookahead stored for an event is 2 or 3, and so is the lookahead
\* getPlanningSettings yields, which is 3 when nothing is stored
C24_LookaheadTwoOrThree ==
    /\ \A v \in LookaheadValues : clampLookahead(v) = IF v = 2 THEN 2 ELSE 3
    /\ \A e \in events :
          /\ settings[e] # NoSettings => settings[e].lookahead \in {2, 3}
          /\ getPlanningSettings(settings, e, eventLaneCount[e]).lookahead \in {2, 3}
          /\ settings[e] = NoSettings =>
                getPlanningSettings(settings, e, eventLaneCount[e]).lookahead = 3

\* C24 witness: an event with stored lookahead 2 has a complete heat and
\* exactly two heats in flight, with more heats to come
C24_Witness ==
    \E e \in events :
        /\ settings[e] # NoSettings
        /\ settings[e].lookahead = 2
        /\ nRacers[e] = MaxEventRacers
        /\ InFlightCount(CurrentRoundHeats(e)) = 2
        /\ \E h \in DOMAIN heats : heats[h].event_id = e /\ heats[h].status = "complete"

\* ------------------------------------------------------------ K1 serial protocol
\* A line of the timer is the list of what LANE_TIME_PATTERN matches in it, in
\* line order; text that matches nothing leaves no trace.  A match is a lane
\* letter (either case), a time literal <<whole part, decimals>> and the mark
\* that follows it, "" when there is none.  The two curly quotes are written
\* "u201c" and "u201d".
Undefined == "undefined"
\* the place of a lane that has none (undefined)
NoPlace == 0

PLACE_BY_PUNCTUATION ==
    ("!" :> 1) @@ ("\"" :> 2) @@ ("#" :> 3) @@ ("$" :> 4) @@ ("%" :> 5) @@ ("&" :> 6)
        @@ ("'" :> 7) @@ ("u201c" :> 2) @@ ("u201d" :> 2)

normalizePlaceIndicator(indicator) ==
    IF indicator = "" THEN Undefined
    ELSE IF indicator = "u201c" \/ indicator = "u201d" THEN "\""
    ELSE indicator

toUpperCase ==
    ("a" :> "A") @@ ("b" :> "B") @@ ("c" :> "C") @@ ("d" :> "D") @@ ("e" :> "E") @@ ("f" :> "F")
        @@ [l \in {"A", "B", "C", "D", "E", "F"} |-> l]

charCodeAt ==
    ("A" :> 65) @@ ("B" :> 66) @@ ("C" :> 67) @@ ("D" :> 68) @@ ("E" :> 69) @@ ("F" :> 70)

laneLetterToNumber(laneLetter) == charCodeAt[laneLetter] - 64

\* the longest decimal part of a time literal of the model
MaxDecimals == 2

RECURSIVE Pow10(_)
Pow10(n) == IF n = 0 THEN 1 ELSE 10 * Pow10(n - 1)

RECURSIVE DigitsValue(_)
DigitsValue(digits) ==
    IF digits = <<>> THEN 0
    ELSE 10 * DigitsValue(SubSeq(digits, 1, Len(digits) - 1)) + digits[Len(digits)]

\* Number.parseFloat of a time literal, in units of 10^-MaxDecimals seconds
parseFloat(timeLiteral) ==
    timeLiteral[1] * Pow10(MaxDecimals)
        + DigitsValue(timeLiteral[2]) * Pow10(MaxDecimals - Len(timeLiteral[2]))

\* Array.prototype.sort, which is stable; goesFirst[k][j] says that the
\* comparator puts element k before element j
SortedBy(seq, goesFirst) ==
    [i \in 1..Len(seq) |->
        seq[CHOOSE j \in 1..Len(seq) :
                Cardinality({k \in 1..Len(seq) :
                                \/ goesFirst[k][j]
                                \/ (~goesFirst[j][k] /\ k < j)}) = i - 1]]

RankedFirst(left, right) ==
    IF left.timeSeconds = right.timeSeconds
    THEN left.laneNumber < right.laneNumber
    ELSE left.timeSeconds < right.timeSeconds

RankedOrder(laneResults) ==
    [k \in DOMAIN laneResults |-> [j \in DOMAIN laneResults |->
        RankedFirst(laneResults[k], laneResults[j])]]

derivePlacesFromTimes(laneResults) ==
    IF \E i \in DOMAIN laneResults : laneResults[i].place # NoPlace
    THEN laneResults
    ELSE Bound([ranked \in {SortedBy(laneResults, RankedOrder(laneResults))} |->
            [i \in DOMAIN laneResults |->
                [laneResults[i] EXCEPT !.place =
                    \* placeByLane keeps the last index set for a letter
                    CHOOSE index \in DOMAIN ranked :
                        /\ ranked[index].laneLetter = laneResults[i].laneLetter
                        /\ \A later \in DOMAIN ranked :
                              ranked[later].laneLetter = laneResults[i].laneLetter
                                  => later <= index]]])

NullLine == [laneResults |-> <<>>]

LaneTimingOf(match) ==
    [laneLetter |-> toUpperCase[match.letter],
     laneNumber |-> laneLetterToNumber(toUpperCase[match.letter]),
     timeSeconds |-> parseFloat(match.timeLiteral),
     placeIndicator |-> normalizePlaceIndicator(match.indicator),
     place |-> IF normalizePlaceIndicator(match.indicator) = Undefined THEN NoPlace
               ELSE PLACE_BY_PUNCTUATION[normalizePlaceIndicator(match.indicator)]]

LaneNumberOrder(laneResults) ==
    [k \in DOMAIN laneResults |-> [j \in DOMAIN laneResults |->
        laneResults[k].laneNumber < laneResults[j].laneNumber]]

MatchedLanes(matches, maxLaneCount) ==
    Bound([kept \in {SelectSeq(matches,
                        LAMBDA m : laneLetterToNumber(toUpperCase[m.letter]) <= maxLaneCount)} |->
        [i \in DOMAIN kept |-> LaneTimingOf(kept[i])]])

parseRaceDataLine(matches, opts) ==
    Bound([laneResults \in {MatchedLanes(matches,
                                IF opts.maxLaneCount = <<>> THEN 6 ELSE opts.maxLaneCount[1])} |->
        IF laneResults = <<>> THEN NullLine
        ELSE [laneResults |-> derivePlacesFromTimes(SortedBy(laneResults, LaneNumberOrder(laneResults)))]])

\* the lines given to the parser: up to MaxMatches matches
MaxMatches == 3
LineLetters == {"A", "b", "C"}
TimeLiterals == {<<3, <<1>>>>, <<3, <<1, 0>>>>, <<2, <<9>>>>}
LineIndicators == {"", "!", "u201d"}
LineMatches == [letter : LineLetters, timeLiteral : TimeLiterals, indicator : LineIndicators]
Lines == UNION {[1..n -> LineMatches] : n \in 0..MaxMatches}
MaxParseLanes == 3
ParseOptions == {[maxLaneCount |-> <<>>]} \cup {[maxLaneCount |-> <<n>>] : n \in 2..MaxParseLanes}

InitProtocol ==
    /\ line \in Lines
    /\ parseOptions \in ParseOptions
    /\ parsedLine = NotParsed
    /\ NoRun
    /\ pRacers = <<>>
    /\ pLaneCount = 0
    /\ pRounds = 1
    /\ pStandings = <<>>
    /\ pHistory = <<>>
    /\ pArb = 0
    /\ calls = <<>>
    /\ NoElimination
    /\ NoService

ParseLine ==
    /\ parsedLine = NotParsed
    /\ parsedLine' = parseRaceDataLine(line, parseOptions)
    /\ UNCHANGED <<line, parseOptions, runVars, harnessVars, serviceVars>>

SpecProtocol == InitProtocol /\ [][ParseLine]_vars

\* no match of the line carries a finish-order mark
NoPunctuation == \A i \in DOMAIN line : line[i].indicator = ""

\* no lane letter is matched twice in the line
EachLaneOnce ==
    \A i, j \in DOMAIN line :
        toUpperCase[line[i].letter] = toUpperCase[line[j].letter] => i = j

UsedMaxLaneCount == IF parseOptions.maxLaneCount = <<>> THEN 6 ELSE parseOptions.maxLaneCount[1]

\* the result holds the matches of the lanes up to maxLaneCount, in lane
\* order, with the places 1..n by ascending time and then lane number
PlacedByTime(laneResults) ==
    /\ Len(laneResults) = Cardinality({i \in DOMAIN line :
            laneLetterToNumber(toUpperCase[line[i].letter]) <= UsedMaxLaneCount})
    /\ \A i \in DOMAIN laneResults : laneResults[i].laneNumber <= UsedMaxLaneCount
    /\ \A i, j \in DOMAIN laneResults :
          i < j => laneResults[i].laneNumber <= laneResults[j].laneNumber
    /\ {laneResults[i].place : i \in DOMAIN laneResults} = 1..Len(laneResults)
    /\ \A i, j \in DOMAIN laneResults :
          RankedFirst(laneResults[i], laneResults[j])
              => laneResults[i].place < laneResults[j].place

\* C26: when no lane of the line carries finish-order punctuation,
\* parseRaceDataLine gives the n parsed lanes the places 1..n by ascending
\* time, ties broken by the lower lane number, returns them in lane order and
\* leaves out the lanes above maxLaneCount
C26_PlacesFromTimes ==
    (parsedLine # NotParsed /\ NoPunctuation) => PlacedByTime(parsedLine.laneResults)

\* the same for the lines that name each lane once
PlacesFromTimesEachLaneOnce ==
    (parsedLine # NotParsed /\ NoPunctuation /\ EachLaneOnce)
        => PlacedByTime(parsedLine.laneResults)

\* ------------------------------------------------------------ K1 hardware test harness
\* One run of the harness with a port given.  A data event is one complete
\* line of the device; the events of the port, the timer and the user come in
\* any order while the process lives.
MaxRequired == 2
MaxMinLanes == 2
MaxCommands == 2
MaxPackets == 3

\* parseArguments: positive integers, and --min-lanes not above --lanes
RunOptions ==
    {o \in [requiredRacePackets : 1..MaxRequired, minLaneCount : 1..MaxMinLanes,
            maxLaneCount : {MaxMinLanes}, startupCommands : 0..MaxCommands] :
        o.minLaneCount <= o.maxLaneCount}

MatchOf(letter, timeLiteral) == [letter |-> letter, timeLiteral |-> timeLiteral, indicator |-> ""]

\* the lines the device sends: text that is no race line, one lane, two
\* lanes, one lane matched twice, and a lane above the lane count
DeviceLines ==
    { <<>>,
      <<MatchOf("A", <<3, <<1>>>>)>>,
      <<MatchOf("A", <<3, <<1>>>>), MatchOf("B", <<2, <<9>>>>)>>,
      <<MatchOf("A", <<3, <<1>>>>), MatchOf("A", <<2, <<9>>>>)>>,
      <<MatchOf("C", <<2, <<9>>>>)>> }

InitRun ==
    /\ options \in RunOptions
    /\ port = "opening"
    /\ commandQueue = 0
    /\ capturedRacePackets = 0
    /\ finished = FALSE
    /\ timeoutHandle = "none"
    /\ finishCall = NoFinish
    /\ exitCode = Running
    /\ racePacketLog = <<>>
    /\ NoProtocol
    /\ pRacers = <<>>
    /\ pLaneCount = 0
    /\ pRounds = 1
    /\ pStandings = <<>>
    /\ pHistory = <<>>
    /\ pArb = 0
    /\ calls = <<>>
    /\ NoElimination
    /\ NoService

otherVars == <<protocolVars, harnessVars, serviceVars>>

\* finish up to its await; handle is the timeout handle when it is called
finish(passed, message, handle) ==
    IF finished
    THEN /\ timeoutHandle' = handle
         /\ UNCHANGED <<finished, finishCall>>
    ELSE /\ finished' = TRUE
         /\ timeoutHandle' = "none"
         /\ finishCall' = [at |-> "commandQueue", passed |-> passed, message |-> message,
                           awaiting |-> commandQueue]

\* port.on("open"): the startup commands are queued and the timeout is set
PortOpen ==
    /\ exitCode = Running
    /\ port = "opening"
    /\ port' = "open"
    /\ commandQueue' = commandQueue + options.startupCommands
    /\ timeoutHandle' = "armed"
    /\ UNCHANGED <<options, capturedRacePackets, finished, finishCall, exitCode, racePacketLog>>
    /\ UNCHANGED otherVars

\* the write of the first queued command ends, well or badly
CommandWritten ==
    /\ exitCode = Running
    /\ commandQueue > 0
    /\ commandQueue' = commandQueue - 1
    /\ finishCall' = [finishCall EXCEPT !.awaiting = Max(0, @ - 1)]
    /\ UNCHANGED <<options, port, capturedRacePackets, finished, timeoutHandle, exitCode,
                   racePacketLog>>
    /\ UNCHANGED otherVars

\* a parsed line counts as a race packet
PacketHasEnoughLanes(laneResults, minLaneCount) == Len(laneResults) >= minLaneCount

LoggedLanes(laneResults) == [i \in DOMAIN laneResults |-> laneResults[i].laneNumber]

\* port.on("data") for one line
DataLine(deviceLine) ==
    /\ exitCode = Running
    /\ port = "open"
    /\ capturedRacePackets < MaxPackets
    /\ \E parsed \in {parseRaceDataLine(deviceLine, [maxLaneCount |-> <<options.maxLaneCount>>])} :
          IF \/ parsed = NullLine
             \/ ~PacketHasEnoughLanes(parsed.laneResults, options.minLaneCount)
          THEN UNCHANGED <<capturedRacePackets, racePacketLog, finished, timeoutHandle,
                           finishCall>>
          ELSE /\ capturedRacePackets' = capturedRacePackets + 1
               /\ racePacketLog' = Append(racePacketLog, LoggedLanes(parsed.laneResults))
               /\ IF capturedRacePackets + 1 >= options.requiredRacePackets
                  THEN finish(TRUE, "PASS", timeoutHandle)
                  ELSE UNCHANGED <<finished, timeoutHandle, finishCall>>
    /\ UNCHANGED <<options, port, commandQueue, exitCode>>
    /\ UNCHANGED otherVars

\* port.on("error"); a port that fails to open stays closed
SerialError ==
    /\ exitCode = Running
    /\ port' = IF port = "opening" THEN "closed" ELSE port
    /\ finish(FALSE, "serial error", timeoutHandle)
    /\ UNCHANGED <<options, commandQueue, capturedRacePackets, exitCode, racePacketLog>>
    /\ UNCHANGED otherVars

\* port.on("close") when the harness did not close the port
PortClosed ==
    /\ exitCode = Running
    /\ port = "open"
    /\ port' = "closed"
    /\ finish(FALSE, "closed", timeoutHandle)
    /\ UNCHANGED <<options, commandQueue, capturedRacePackets, exitCode, racePacketLog>>
    /\ UNCHANGED otherVars

\* process.on("SIGINT")
Sigint ==
    /\ exitCode = Running
    /\ finish(FALSE, "stopped", timeoutHandle)
    /\ UNCHANGED <<options, port, commandQueue, capturedRacePackets, exitCode, racePacketLog>>
    /\ UNCHANGED otherVars

\* the timeout set on open runs out
TimedOut ==
    /\ exitCode = Running
    /\ timeoutHandle = "armed"
    /\ finish(FALSE, "timed out", "fired")
    /\ UNCHANGED <<options, port, commandQueue, capturedRacePackets, exitCode, racePacketLog>>
    /\ UNCHANGED otherVars

ExitCodeOf(passed) == IF passed THEN 0 ELSE 1

\* finish after `await commandQueue`: it closes an open port, else it exits
FinishAwaited ==
    /\ exitCode = Running
    /\ finishCall.at = "commandQueue"
    /\ finishCall.awaiting = 0
    /\ IF port = "open"
       THEN /\ finishCall' = [finishCall EXCEPT !.at = "close"]
            /\ UNCHANGED exitCode
       ELSE /\ exitCode' = ExitCodeOf(finishCall.passed)
            /\ UNCHANGED finishCall
    /\ UNCHANGED <<options, port, commandQueue, capturedRacePackets, finished, timeoutHandle,
                   racePacketLog>>
    /\ UNCHANGED otherVars

\* the callback of port.close: the close handler finds finished set, and
\* finish exits
FinishClosed ==
    /\ exitCode = Running
    /\ finishCall.at = "close"
    /\ port' = "closed"
    /\ exitCode' = ExitCodeOf(finishCall.passed)
    /\ UNCHANGED <<options, commandQueue, capturedRacePackets, finished, timeoutHandle,
                   finishCall, racePacketLog>>
    /\ UNCHANGED otherVars

NextRun ==
    \/ PortOpen
    \/ CommandWritten
    \/ \E deviceLine \in DeviceLines : DataLine(deviceLine)
    \/ SerialError
    \/ PortClosed
    \/ Sigint
    \/ TimedOut
    \/ FinishAwaited
    \/ FinishClosed

SpecRun == InitRun /\ [][NextRun]_vars

\* writes end and the continuations of finish run
SpecRunFair ==
    /\ SpecRun
    /\ WF_vars(CommandWritten)
    /\ WF_vars(FinishAwaited)
    /\ WF_vars(FinishClosed)

\* the race packets counted so far are enough, each with enough lanes by
\* the given lane counts of the logged packets
CountedEnough(laneCounts) ==
    /\ capturedRacePackets >= options.requiredRacePackets
    /\ Len(racePacketLog) = capturedRacePackets
    /\ \A k \in DOMAIN racePacketLog : laneCounts[k] >= options.minLaneCount

\* per logged packet, the lanes it has a time for
TimedLanes == [k \in DOMAIN racePacketLog |-> Cardinality(Range(racePacketLog[k]))]

\* per logged packet, the lane results the parser returned
LaneResultCounts == [k \in DOMAIN racePacketLog |-> Len(racePacketLog[k])]

\* the first call of finish decides: what it decided stays, a failed run
\* ends with exit code 1 and never with 0, and an exit code stays
FirstOutcomeDecides ==
    /\ []((finished /\ ~finishCall.passed) => exitCode \in {Running, 1})
    /\ []((finished /\ finishCall.passed) => exitCode \in {Running, 0})
    /\ []((exitCode # Running) => finished)
    /\ ((finished /\ ~finishCall.passed) ~> (exitCode = 1))
    /\ [][/\ finished => /\ finished'
                         /\ finishCall'.passed = finishCall.passed
                         /\ finishCall'.message = finishCall.message
          /\ exitCode # Running => exitCode' = exitCode]_vars

\* C25: the harness exits with code 0 only after it has counted at least
\* requiredRacePackets race packets, each with at least minLaneCount timed
\* lanes; when a timeout, a serial error, an unexpected close of the port or
\* SIGINT comes first it exits with code 1; and once the outcome is decided
\* no later event changes it
C25_ExitCodeFollowsFirstOutcome ==
    /\ [](exitCode = 0 => CountedEnough(TimedLanes))
    /\ FirstOutcomeDecides

\* the same with the lanes of a packet counted as the parser's lane results
ExitCodeFollowsLaneResults ==
    /\ [](exitCode = 0 => CountedEnough(LaneResultCounts))
    /\ FirstOutcomeDecides

\* a run that failed by timeout has exited with code 1 although enough race
\* packets came in afterwards
FailedRunAfterLatePackets ==
    /\ exitCode = 1
    /\ finishCall.message = "timed out"
    /\ capturedRacePackets >= options.requiredRacePackets

\* ------------------------------------------------------------ progress of a planned heat
\* the planner's input as it uses it
UsedLaneCount == Max(0, pLaneCount)
UsedRounds == Max(DEFAULT_ROUNDS, pRounds)

\* the runs racer r still needs in lane l after the heats of a history,
\* counted from the history itself
RunsIn(history, r, l) ==
    Cardinality({e \in HeatEntries(history) :
                    /\ history[e[1]].lanes[e[2]].racer_id = r
                    /\ history[e[1]].lanes[e[2]].lane_number = l})

NeedIn(history, r, l) == Max(0, UsedRounds - RunsIn(history, r, l))

TotalNeedIn(history, r) == SumSeq([l \in 1..UsedLaneCount |-> NeedIn(history, r, l)])

RosterNeedIn(history) ==
    SumSeq([i \in DOMAIN pRacers |-> TotalNeedIn(history, pRacers[i].id)])

\* what planNextHeat computes on the way to its heat, for a roster with a
\* racer in need and at least one lane
PlannerCall ==
    LET ps == buildPlanningState(pRacers, UsedLaneCount, UsedRounds, pHistory)
        racersNeedingRuns == NeedingRuns(pRacers, ps)
        heatSize == Min(UsedLaneCount, Len(racersNeedingRuns))
        selectedLanes == pickLanesForHeat(UsedLaneCount, heatSize, racersNeedingRuns,
                                          ps.laneNeedsByRacer, ps.laneUsageTotals)
    IN [ps |-> ps,
        racersNeedingRuns |-> racersNeedingRuns,
        heatSize |-> heatSize,
        selectedLanes |-> selectedLanes,
        participants |-> chooseParticipants(racersNeedingRuns, heatSize, selectedLanes, ps,
                                            pStandings)]

NeedRemains == UsedLaneCount > 0 /\ RosterNeedIn(pHistory) > 0

\* the ways to put the k participants on the k selected lanes, as lane
\* entries in participant order
Bijections(participants, selectedLanes) ==
    {[i \in DOMAIN participants |->
         [lane_number |-> selectedLanes[f[i]], racer_id |-> participants[i].id]] :
       f \in {g \in [DOMAIN participants -> DOMAIN selectedLanes] :
                 \A i, j \in DOMAIN participants : i # j => g[i] # g[j]}}

\* the lane entries of an assignment that meet a need of the history
NeededPairs(lanes) ==
    {k \in DOMAIN lanes : NeedIn(pHistory, lanes[k].racer_id, lanes[k].lane_number) > 0}

\* C27: every heat planNextHeat returns holds a (racer, lane) pair whose
\* need before the heat was above 0, an assignment without such a pair is
\* turned into none at the end of assignLanes, and appending a returned heat
\* to the history makes the total need of the roster strictly smaller
C27_HeatMakesProgress ==
    /\ NextPlanned # NullHeat =>
          /\ NeededPairs(NextPlanned.lanes) # {}
          /\ RosterNeedIn(Append(pHistory, [status |-> "pending", lanes |-> NextPlanned.lanes]))
                < RosterNeedIn(pHistory)
    /\ NeedRemains =>
          \A lanes \in Bijections(PlannerCall.participants, PlannerCall.selectedLanes) :
              NeededPairs(lanes) = {} => AssignmentResult(lanes, PlannerCall.ps) = <<>>

\* C27 witness: the planner returns a heat in which one racer runs a lane it
\* still needs and another a lane it needs no more, while the participants
\* could also be put on lanes none of them needs
C27_Witness ==
    /\ NextPlanned # NullHeat
    /\ NeededPairs(NextPlanned.lanes) # {}
    /\ NeededPairs(NextPlanned.lanes) # DOMAIN NextPlanned.lanes
    /\ \E lanes \in Bijections(PlannerCall.participants, PlannerCall.selectedLanes) :
          NeededPairs(lanes) = {}

\* ------------------------------------------------------------ a round planned to its end
\* a round with at least one lane, planned from an empty history: every heat
\* of the history is one the planner returned
InitRound ==
    /\ InitPlan
    /\ pLaneCount >= 1

NextRound ==
    \/ AppendPlanned("pending")
    \/ AppendPlanned("complete")

SpecRound == InitRound /\ [][NextRound]_vars

\* C28: in a history made of planner-returned heats only, with any
\* standings and at least one lane, planNextHeat returns a heat whenever a
\* racer of the roster still has a need: chooseParticipants fills the heat
\* and the cheapest lane assignment meets a need
C28_HeatWhileNeedRemains ==
    NeedRemains =>
        /\ Len(PlannerCall.participants) = PlannerCall.heatSize
        /\ NextPlanned # NullHeat

\* C28 witness: with standings given and heats planned, some racers are
\* done and the others in need, the participants could be put on lanes none
\* of them needs, and a heat is returned
C28_Witness ==
    /\ NeedRemains
    /\ pStandings # <<>>
    /\ pHistory # <<>>
    /\ Len(PlannerCall.racersNeedingRuns) < Len(pRacers)
    /\ \E lanes \in Bijections(PlannerCall.participants, PlannerCall.selectedLanes) :
          NeededPairs(lanes) = {}
    /\ NextPlanned # NullHeat

\* ------------------------------------------------------------ the lane assignment
\* a track of WideLanes lanes with at least as many racers, planned from an
\* empty history or after one caller-supplied heat
WideLanes == 3

InitWide ==
    /\ \E n \in WideLanes..MaxRacers, descending \in BOOLEAN :
          /\ pRacers = Roster(n, descending)
          /\ pStandings \in StandingsChoices(n)
    /\ pLaneCount = WideLanes
    /\ pRounds \in 1..MaxRounds
    /\ pHistory = <<>>
    /\ pArb = 0
    /\ calls = <<>>
    /\ NoTimer
    /\ NoElimination
    /\ NoService

NextWide ==
    \/ AppendPlanned("complete")
    \/ AppendArbitrary

SpecWide == InitWide /\ [][NextWide]_vars

\* the entries of lane l in a history that the planner counts
UsageIn(history, l) ==
    Cardinality({e \in HeatEntries(history) :
                    /\ history[e[1]].lanes[e[2]].lane_number = l
                    /\ history[e[1]].lanes[e[2]].racer_id \in IdsOf(pRacers)})

\* the cost of an assignment, from the history: per pair 80 when the racer
\* has no need in the lane, 8 for each of its past runs in the lane, and the
\* usage of the lane
CostOf(lanes) ==
    SumSeq([k \in DOMAIN lanes |->
        (IF NeedIn(pHistory, lanes[k].racer_id, lanes[k].lane_number) > 0 THEN 0 ELSE 80)
            + 8 * RunsIn(pHistory, lanes[k].racer_id, lanes[k].lane_number)
            + UsageIn(pHistory, lanes[k].lane_number)])

\* what assignLanes returns for the participants and lanes of the call
AssignedLanes ==
    assignLanes(PlannerCall.participants, PlannerCall.selectedLanes, PlannerCall.ps)

\* C29: assignLanes returns a bijection between the k chosen participants
\* and the k selected lanes, in lane order, and no bijection between them
\* costs less: the pruning of partial assignments loses no cheaper one
C29_AssignmentIsCheapest ==
    NeedRemains =>
        LET call == PlannerCall
            assigned == assignLanes(call.participants, call.selectedLanes, call.ps)
            cost == CostOf(assigned)
            all == Bijections(call.participants, call.selectedLanes)
        IN /\ Len(call.participants) = Len(call.selectedLanes)
           /\ \E lanes \in all : assigned = SortByLane(lanes)
           /\ \A lanes \in all : cost <= CostOf(lanes)

\* the first assignment the search completes: participant i on selected lane i
FirstCompleted ==
    [i \in DOMAIN PlannerCall.participants |->
        [lane_number |-> PlannerCall.selectedLanes[i],
         racer_id |-> PlannerCall.participants[i].id]]

\* C29 witness: three participants go on three lanes, the six ways to do it
\* have at least three different costs, and the first one the search
\* completes is not the cheapest
C29_Witness ==
    /\ NeedRemains
    /\ Len(PlannerCall.participants) = WideLanes
    /\ Cardinality({CostOf(lanes) :
            lanes \in Bijections(PlannerCall.participants, PlannerCall.selectedLanes)}) >= 3
    /\ CostOf(AssignedLanes) < CostOf(FirstCompleted)

\* ------------------------------------------------------------ the size of a planned heat
\* the racers of the roster with a need left, counted from the history
RacersInNeed == {r \in IdsOf(pRacers) : TotalNeedIn(pHistory, r) > 0}

\* C30: a heat planNextHeat returns has exactly min(laneCount, number of
\* roster racers with a need left) lanes, and every racer in it has a need
\* left: no heat is returned partly filled
C30_HeatIsFull ==
    NextPlanned # NullHeat =>
        /\ Len(NextPlanned.lanes) = Min(UsedLaneCount, Cardinality(RacersInNeed))
        /\ RacerIdsOf(NextPlanned.lanes) \subseteq RacersInNeed

\* C30 witness: a heat is returned that fills fewer lanes than the track
\* has, because fewer racers are in need, while the roster would fill them
C30_Witness ==
    /\ NextPlanned # NullHeat
    /\ Len(NextPlanned.lanes) < UsedLaneCount
    /\ Len(pRacers) >= UsedLaneCount
    /\ Len(NextPlanned.lanes) = Cardinality(RacersInNeed)

\* ------------------------------------------------------------ topping up twice
\* a race day with completions that carry no results, and with stops
NextQueue ==
    \/ \E e \in events : OpenRaceDay(e)
    \/ \E id \in HeatIds(heats) : StartHeat(id)
    \/ StopRace
    \/ \E id \in HeatIds(heats) : CompleteHeat(id)

SpecQueue == Init /\ [][NextQueue]_vars

\* topUpHeatQueue for event e on the given tables, with the event's settings
TopUpOf(hs, cache, e) ==
    topUpHeatQueue(hs, cache, e, getPlanningSettings(settings, e, eventLaneCount[e]))

\* on the tables as they are, a second call of topUpHeatQueue leaves the
\* heats and the rosters as the first call left them
TopUpTwiceIsOnce ==
    \A e \in events :
        LET once == TopUpOf(heats, rosterCache, e)
            twice == TopUpOf(once.heats, once.cache, e)
        IN twice.heats = once.heats /\ twice.cache = once.cache

\* the step is a complete request on a heat that is complete already
CompletedAgain(heatId) ==
    /\ HasHeat(heats, heatId)
    /\ HeatById(heats, heatId).status = "complete"
    /\ CompleteHeat(heatId)

\* C31: topUpHeatQueue called a second time, with nothing changed in
\* between, creates no heat and opens no round; a complete request on a heat
\* that is already complete leaves the heats and the rosters as they were
C31_TopUpIdempotent ==
    /\ []TopUpTwiceIsOnce
    /\ [][\A id \in HeatIds(heats) :
             CompletedAgain(id) => heats' = heats /\ rosterCache' = rosterCache]_vars

\* C31 witness: a request has been replayed on a complete heat of an event
\* whose queue is full while the planner has a further heat to give, and
\* topUpHeatQueue adds nothing
C31_Witness ==
    \E e \in events :
        LET st == getPlanningSettings(settings, e, eventLaneCount[e])
            currentRound == getHighestRound(findByEvent(heats, e))
        IN /\ replays = 1
           /\ \E h \in DOMAIN heats : heats[h].event_id = e /\ heats[h].status = "complete"
           /\ InFlightCount(RoundHeats(heats, e, currentRound)) = st.lookahead
           /\ PlanForRound(heats, rosterCache, settings, e, currentRound) # NullHeat
           /\ TopUpOf(heats, rosterCache, e).heats = heats

\* ------------------------------------------------------------ starting while a heat runs
StatusesOf(hs) == [h \in DOMAIN hs |-> hs[h].status]

RunningIn(hs) == {hs[h].id : h \in {g \in DOMAIN hs : hs[g].status = "running"}}

\* the ids a start request may carry: those of the heats, and one of no heat
StartIds == HeatIds(heats) \cup {FreshHeatId(heats)}

\* C32: a start request for a heat (or for an id of no heat) while a
\* different heat is running is answered 409 and leaves every heat's status
\* as it was; a start request for the heat that is running is answered 200
\* and leaves that heat the only running one
C32_StartWhileRunning ==
    \A id \in StartIds :
        LET runningHeat == findRunning(heats)
            answer == startHeat(heats, id)
        IN /\ (runningHeat # 0 /\ runningHeat # id) =>
                 /\ answer.status = 409
                 /\ StatusesOf(answer.heats) = StatusesOf(heats)
           /\ (runningHeat # 0 /\ runningHeat = id) =>
                 /\ answer.status = 200
                 /\ RunningIn(answer.heats) = {id}

\* C32 witness: a heat is running while a heat of its own event and a heat
\* of the other event are pending, so that start requests for both are
\* refused
C32_Witness ==
    \E r \in RunningHeats :
        /\ \E h \in DOMAIN heats :
              heats[h].event_id = heats[r].event_id /\ heats[h].status = "pending"
        /\ \E h \in DOMAIN heats :
              heats[h].event_id # heats[r].event_id /\ heats[h].status = "pending"
        /\ startHeat(heats, heats[r].id).status = 200

\* ------------------------------------------------------------ stopping the race
\* what a stop request that finds heat r running leaves behind
StoppedOnly(r) ==
    /\ DOMAIN heats' = DOMAIN heats
    /\ \A h \in DOMAIN heats :
          IF heats[h].id = r
          THEN heats'[h] = [heats[h] EXCEPT !.status = "pending"]
          ELSE heats'[h] = heats[h]
    /\ rosterCache' = rosterCache
    /\ eventStatus' = eventStatus
    /\ settings' = settings

\* C33: a stop request puts the running heat back to pending, never to
\* complete, and changes nothing else: no heat is created, no round opened,
\* no event marked complete, every other heat is as it was; with no heat
\* running the request changes nothing
C33_StopOnlyStops ==
    /\ [][StopRace => (findRunning(heats) # 0 /\ StoppedOnly(findRunning(heats)))]_vars
    /\ [](findRunning(heats) = 0 => ~ENABLED <<StopRace>>_vars)

\* C33 witness: a heat that has its results is pending again, which only a
\* stop request brings about, while another heat of its event is complete
\* and a heat of the other event is pending
C33_Witness ==
    \E s \in DOMAIN heats :
        /\ heats[s].status = "pending"
        /\ heats[s].winner # NoResult
        /\ \E h \in DOMAIN heats :
              heats[h].event_id = heats[s].event_id /\ heats[h].status = "complete"
        /\ \E h \in DOMAIN heats :
              heats[h].event_id # heats[s].event_id /\ heats[h].status = "pending"

\* ------------------------------------------------------------ the status of a past heat
\* the history with the status of heat h changed
WithStatus(h, status) == [pHistory EXCEPT ![h].status = status]

\* the history with every heat given the status
AllWithStatus(status) == [h \in DOMAIN pHistory |-> [pHistory[h] EXCEPT !.status = status]]

\* C34: planNextHeat returns the same for the history with the status of
\* any one heat, or of all heats, changed to pending, running or complete:
\* a heat that is planned and not run counts like a completed one
C34_StatusBlind ==
    LET planned == NextPlanned
    IN /\ \A h \in DOMAIN pHistory, status \in HeatStatuses :
             planNextHeat(pRacers, pLaneCount, pRounds, pStandings, WithStatus(h, status))
                 = planned
       /\ \A status \in HeatStatuses :
             planNextHeat(pRacers, pLaneCount, pRounds, pStandings, AllWithStatus(status))
                 = planned

\* C34 witness: the history holds pending heats, and the heat planned next
\* is another one than the heat planned from the complete heats alone
C34_Witness ==
    /\ \E h \in DOMAIN pHistory : pHistory[h].status = "pending"
    /\ \E h \in DOMAIN pHistory : pHistory[h].status = "complete"
    /\ NextPlanned # NullHeat
    /\ NextPlanned # planNextHeat(pRacers, pLaneCount, pRounds, pStandings,
                                  SelectSeq(pHistory, LAMBDA heat : heat.status = "complete"))

\* ------------------------------------------------------------ rosters from round to round
\* the racer ids the round_racer_rosters table holds for a round of event e
RosterIds(e, roundNumber) ==
    {row[3] : row \in {c \in rosterCache : c[1] = e /\ c[2] = roundNumber}}

\* the racers of event e cut when round roundNumber was opened
EliminatedAt(e, roundNumber) == RosterIds(e, roundNumber - 1) \ RosterIds(e, roundNumber)

\* C35: every heat of a round holds only racers of that round's roster;
\* the roster of every round after the first is a subset of the roster of
\* the round before; a racer cut when a round was opened is on no heat of
\* that round or of a later one
C35_RostersNarrow ==
    \A e \in events :
        /\ \A h \in DOMAIN heats :
              heats[h].event_id = e => HeatRacers(heats[h]) \subseteq RosterIds(e, heats[h].round)
        /\ \A k \in RosterRounds(e) :
              k > 1 =>
                 /\ RosterIds(e, k) \subseteq RosterIds(e, k - 1)
                 /\ \A h \in DOMAIN heats :
                       (heats[h].event_id = e /\ heats[h].round >= k) =>
                           HeatRacers(heats[h]) \cap EliminatedAt(e, k) = {}

\* C35 witness: a field of five has been cut to three and then to two, and
\* both cuts took racers out; the third round has its heats, one of them complete
C35_Witness ==
    \E e \in events :
        /\ Cardinality(RosterIds(e, 1)) = LargeField
        /\ EliminatedAt(e, 2) # {}
        /\ EliminatedAt(e, 3) # {}
        /\ RosterIds(e, 3) # {}
        /\ \E h \in DOMAIN heats :
              heats[h].event_id = e /\ heats[h].round = 3 /\ heats[h].status = "complete"

\* ------------------------------------------------------------ the planning state
MaxStrayHeats == 1    \* heats of a history with lane entries the call is not about
MaxStrayEntries == 2  \* lane entries of such a heat

\* heats whose lane entries may carry a lane number of 0 or above MaxLanes,
\* each lane number and each racer once
StrayLaneLists ==
    UNION {{f \in [1..k -> [lane_number : 0..(MaxLanes + 1), racer_id : 1..MaxRacers]] :
               \A i, j \in 1..k : i # j =>
                   /\ f[i].lane_number # f[j].lane_number
                   /\ f[i].racer_id # f[j].racer_id}
           : k \in 1..MaxStrayEntries}

\* calls with a rounds value of -1, 0 and up, on at least one lane
InitNeeds ==
    /\ \E n \in 1..MaxRacers : pRacers = Roster(n, FALSE)
    /\ pStandings = <<>>
    /\ pLaneCount \in 1..MaxLanes
    /\ pRounds \in -1..MaxRounds
    /\ pHistory = <<>>
    /\ pArb = 0
    /\ calls = <<>>
    /\ NoTimer
    /\ NoElimination
    /\ NoService

AppendStray ==
    /\ pArb < MaxStrayHeats
    /\ pArb = Len(pHistory)
    /\ \E lanes \in StrayLaneLists :
          pHistory' = Append(pHistory, [status |-> "complete", lanes |-> lanes])
    /\ pArb' = pArb + 1
    /\ UNCHANGED <<pRacers, pLaneCount, pRounds, pStandings>>
    /\ UNCHANGED elimVars
    /\ UNCHANGED callVars
    /\ UNCHANGED <<serviceVars, timerVars>>

NextNeeds ==
    \/ AppendStray
    \/ AppendPlanned("complete")

SpecNeeds == InitNeeds /\ [][NextNeeds]_vars

\* the planning state planNextHeat builds for its call
PlanningStateBuilt == buildPlanningState(pRacers, UsedLaneCount, UsedRounds, pHistory)

\* the heats of the history in which the racer occupied the lane
HeatsOn(r, l) ==
    {h \in DOMAIN pHistory :
        \E k \in DOMAIN pHistory[h].lanes :
            pHistory[h].lanes[k].racer_id = r /\ pHistory[h].lanes[k].lane_number = l}

\* the rounds value, one below 1 taken as 1
RoundsAsked == IF pRounds < 1 THEN 1 ELSE pRounds

NeedAsked(r, l) == Max(0, RoundsAsked - Cardinality(HeatsOn(r, l)))

TotalNeedAsked(r) == SumSeq([l \in 1..pLaneCount |-> NeedAsked(r, l)])

\* the lane entries of roster racers on lanes of the track
EntriesOfCall ==
    {e \in HeatEntries(pHistory) :
        /\ pHistory[e[1]].lanes[e[2]].lane_number \in 1..pLaneCount
        /\ pHistory[e[1]].lanes[e[2]].racer_id \in IdsOf(pRacers)}

\* C36: in the planning state built for a call, every roster racer has for
\* every lane need = max(0, rounds - heats of the history in which it
\* occupied the lane) and total need = the sum over the lanes; lane entries
\* with a lane number outside 1..laneCount or a racer outside the roster
\* enter no count (needs, runs per racer, usage per lane); a rounds value
\* below 1 counts as 1, so that a heat is planned exactly while a need so
\* computed is left
C36_PlanningState ==
    LET ps == PlanningStateBuilt
        ids == IdsOf(pRacers)
    IN /\ DOMAIN ps.laneNeedsByRacer = ids
       /\ DOMAIN ps.totalNeedsByRacer = ids
       /\ \A r \in ids :
             /\ \A l \in 1..pLaneCount : ps.laneNeedsByRacer[r][l] = NeedAsked(r, l)
             /\ ps.totalNeedsByRacer[r] = TotalNeedAsked(r)
             /\ ps.totalAssignmentsByRacer[r] =
                   Cardinality({e \in EntriesOfCall : pHistory[e[1]].lanes[e[2]].racer_id = r})
       /\ \A l \in 1..pLaneCount :
             ps.laneUsageTotals[l] =
                 Cardinality({e \in EntriesOfCall : pHistory[e[1]].lanes[e[2]].lane_number = l})
       /\ (NextPlanned # NullHeat) <=> (\E r \in ids : TotalNeedAsked(r) > 0)

\* C36 witness: the call asks for fewer than 1 round; its history starts
\* with a heat that has an entry on lane 0 or beyond the track and an entry
\* of a racer outside the roster, and goes on with planned heats, after
\* which one racer needs a lane and another needs none
C36_Witness ==
    /\ pRounds < 1
    /\ pArb = 1
    /\ Len(pHistory) > 1
    /\ \E k \in DOMAIN pHistory[1].lanes : pHistory[1].lanes[k].lane_number \notin 1..pLaneCount
    /\ \E k \in DOMAIN pHistory[1].lanes : pHistory[1].lanes[k].racer_id \notin IdsOf(pRacers)
    /\ \E r \in IdsOf(pRacers) : TotalNeedAsked(r) > 0
    /\ \E r \in IdsOf(pRacers) : TotalNeedAsked(r) = 0

\* ------------------------------------------------------------ the lanes of a planned heat
MaxSoloHeats == 3     \* caller-supplied heats of one racer on one lane
SoloLanes == 2        \* lanes of the track they are run on

\* a small field on a track of SoloLanes lanes
InitLanes ==
    /\ \E n \in 1..SoloLanes : pRacers = Roster(n, FALSE)
    /\ pStandings = <<>>
    /\ pLaneCount = SoloLanes
    /\ pRounds \in 1..MaxRounds
    /\ pHistory = <<>>
    /\ pArb = 0
    /\ calls = <<>>
    /\ NoTimer
    /\ NoElimination
    /\ NoService

\* a caller-supplied heat of one racer on one lane enters the history
AppendSolo ==
    /\ pArb < MaxSoloHeats
    /\ pArb = Len(pHistory)
    /\ \E r \in IdsOf(pRacers), l \in 1..SoloLanes :
          pHistory' = Append(pHistory, [status |-> "complete",
                                        lanes |-> <<[lane_number |-> l, racer_id |-> r]>>])
    /\ pArb' = pArb + 1
    /\ UNCHANGED <<pRacers, pLaneCount, pRounds, pStandings>>
    /\ UNCHANGED elimVars
    /\ UNCHANGED callVars
    /\ UNCHANGED <<serviceVars, timerVars>>

NextLanes ==
    \/ AppendSolo
    \/ AppendPlanned("complete")

SpecLanes == InitLanes /\ [][NextLanes]_vars

\* the demand for lane l: the needs of the racers in need, from the history
DemandIn(l) == SumSeq([i \in DOMAIN pRacers |-> NeedIn(pHistory, pRacers[i].id, l)])

\* lane s goes before lane u: more demand, then less usage, then the lower number
GoesBefore(s, u) ==
    \/ DemandIn(s) > DemandIn(u)
    \/ /\ DemandIn(s) = DemandIn(u)
       /\ \/ UsageIn(pHistory, s) < UsageIn(pHistory, u)
          \/ UsageIn(pHistory, s) = UsageIn(pHistory, u) /\ s < u

SelectedLanes == LaneNumbersOf(NextPlanned.lanes)

UnselectedLanes == (1..UsedLaneCount) \ SelectedLanes

\* C37: the lanes of a planned heat are the first heat_size lanes of
\* 1..laneCount in the order of demand descending, usage ascending, lane
\* number ascending: every selected lane goes before every unselected one,
\* and no unselected lane has more demand than a selected one
C37_LanesByDemand ==
    NextPlanned # NullHeat =>
        /\ SelectedLanes \subseteq 1..UsedLaneCount
        /\ Cardinality(SelectedLanes) = Min(UsedLaneCount, Cardinality(RacersInNeed))
        /\ \A s \in SelectedLanes, u \in UnselectedLanes :
              GoesBefore(s, u) /\ DemandIn(u) <= DemandIn(s)

\* a lane left out has a lower number than a selected lane of the same
\* demand and less usage
UsageDecides ==
    \E s \in SelectedLanes, u \in UnselectedLanes :
        u < s /\ DemandIn(s) = DemandIn(u) /\ UsageIn(pHistory, s) < UsageIn(pHistory, u)

\* C37 witness: a heat is planned on fewer lanes than the track has, where
\* usage decides between two lanes of the same demand, against their numbers
C37_Witness ==
    /\ NextPlanned # NullHeat
    /\ Cardinality(RacersInNeed) < UsedLaneCount
    /\ UsageDecides

\* ------------------------------------------------------------ the seed of a heat
\* the heats racer r has run so far: its lane entries that the planner counts
HeatsRunIn(r) ==
    Cardinality({e \in EntriesOfCall : pHistory[e[1]].lanes[e[2]].racer_id = r})

PerformanceOf(r) == getPerformanceScore(r, pStandings)

CarNumberOf(r) == NumberOf(pRacers[CHOOSE i \in DOMAIN pRacers : pRacers[i].id = r].car_number)

\* racer a ranks before racer b: more total need, then fewer heats run, then
\* the higher performance score, then the lower car number
RanksBefore(a, b) ==
    \/ TotalNeedIn(pHistory, a) > TotalNeedIn(pHistory, b)
    \/ /\ TotalNeedIn(pHistory, a) = TotalNeedIn(pHistory, b)
       /\ \/ HeatsRunIn(a) < HeatsRunIn(b)
          \/ /\ HeatsRunIn(a) = HeatsRunIn(b)
             /\ \/ FracCmp(PerformanceOf(a), PerformanceOf(b)) > 0
                \/ /\ FracCmp(PerformanceOf(a), PerformanceOf(b)) = 0
                   /\ CarNumberOf(a) < CarNumberOf(b)

\* the racers in need that rank before every other racer in need
RankedFirstInNeed == {r \in RacersInNeed : \A o \in RacersInNeed \ {r} : RanksBefore(r, o)}

\* C38: when planNextHeat returns a heat, one racer in need ranks before
\* every other by total need descending, heats run ascending, performance
\* score descending and car number ascending, and it is in the heat
C38_SeedInHeat ==
    NextPlanned # NullHeat =>
        /\ Cardinality(RankedFirstInNeed) = 1
        /\ RankedFirstInNeed \subseteq RacerIdsOf(NextPlanned.lanes)

\* C38 witness: after heats that both have run, a heat leaves out a
\* racer in need that has the total need, the heats run and the performance
\* score of the first-ranked racer, and comes before it in the roster: the
\* car number decides
C38_Witness ==
    /\ NextPlanned # NullHeat
    /\ \E r \in RankedFirstInNeed, o \in RacersInNeed \ RacerIdsOf(NextPlanned.lanes) :
          /\ TotalNeedIn(pHistory, o) = TotalNeedIn(pHistory, r)
          /\ HeatsRunIn(o) = HeatsRunIn(r)
          /\ HeatsRunIn(r) > 0
          /\ FracCmp(PerformanceOf(o), PerformanceOf(r)) = 0
          /\ o < r
    /\ pStandings # <<>>

\* ------------------------------------------------------------ the growth of a heat
\* the heats of the history that racers a and b shared
SharedHeats(a, b) ==
    {h \in DOMAIN pHistory :
        /\ \E e \in EntriesOfCall : e[1] = h /\ pHistory[h].lanes[e[2]].racer_id = a
        /\ \E e \in EntriesOfCall : e[1] = h /\ pHistory[h].lanes[e[2]].racer_id = b}

\* the cost of candidate c next to the racers chosen so far, as a fraction:
\* 200 for a need in none of the lanes, 4 times the distance to the seed's
\* performance score, 12 per heat shared with a chosen racer, 2 per heat
\* run, less 6 per run needed
CostAsked(c, chosen, seed, lanes) ==
    LET distance == FracAbsDiff(PerformanceOf(c), PerformanceOf(seed))
        whole == (IF \A l \in lanes : NeedIn(pHistory, c, l) = 0 THEN 200 ELSE 0)
                     + 12 * SumSeq([k \in DOMAIN chosen |->
                                       Cardinality(SharedHeats(chosen[k], c))])
                     + 2 * HeatsRunIn(c)
                     - 6 * TotalNeedIn(pHistory, c)
    IN <<4 * distance[1] + whole * distance[2], distance[2]>>

\* the position of a racer in the roster
RosterIndex(r) == CHOOSE i \in DOMAIN pRacers : pRacers[i].id = r

\* racer c is the right one to add to the chosen racers: in need, not
\* chosen yet, of the least cost, and first in the roster among those of
\* the least cost
RightlyAdded(c, chosen, seed, lanes) ==
    LET open == RacersInNeed \ Range(chosen)
    IN /\ c \in open
       /\ \A o \in open \ {c} :
             \E d \in {FracCmp(CostAsked(c, chosen, seed, lanes),
                               CostAsked(o, chosen, seed, lanes))} :
                 d < 0 \/ (d = 0 /\ RosterIndex(c) < RosterIndex(o))

\* C39: the participants of a planned heat are the seed and then, one by
\* one, the racer in need and not yet chosen whose cost next to the racers
\* chosen so far is the least, the first in roster order among those of the
\* least cost; they are the racers of the heat
C39_GrowthByCost ==
    NeedRemains =>
        LET call == PlannerCall
            chosen == [k \in DOMAIN call.participants |-> call.participants[k].id]
            lanes == Range(call.selectedLanes)
        IN /\ Range(chosen) = RacerIdsOf(NextPlanned.lanes)
           /\ {chosen[1]} = RankedFirstInNeed
           /\ \A k \in 2..Len(chosen) :
                 RightlyAdded(chosen[k], SubSeq(chosen, 1, k - 1), chosen[1], lanes)

ChosenIds == [k \in DOMAIN PlannerCall.participants |-> PlannerCall.participants[k].id]

\* C39 witness: a heat of three, with standings: the third racer is added
\* ahead of a racer that comes earlier in the roster and costs more, having
\* shared a heat with a racer chosen before
C39_Witness ==
    /\ NeedRemains
    /\ pStandings # <<>>
    /\ Len(ChosenIds) = WideLanes
    /\ \E o \in RacersInNeed \ Range(ChosenIds) :
          /\ RosterIndex(o) < RosterIndex(ChosenIds[WideLanes])
          /\ \E k \in 1..(WideLanes - 1) : SharedHeats(ChosenIds[k], o) # {}
          /\ FracCmp(CostAsked(ChosenIds[WideLanes], SubSeq(ChosenIds, 1, WideLanes - 1),
                               ChosenIds[1], Range(PlannerCall.selectedLanes)),
                     CostAsked(o, SubSeq(ChosenIds, 1, WideLanes - 1),
                               ChosenIds[1], Range(PlannerCall.selectedLanes))) < 0
====
